---- MODULE Spec2Model ----
(***************************************************************************)
(* A model of the resource storage and delivery layer of memos:            *)
(*   - the Local filesystem provider (internal/resources/local),           *)
(*   - the delivery handler streamResourceContent with the thumbnail       *)
(*     cache and its generator budget (api/resource),                      *)
(*   - the lazily initialised S3 client handle lazyInit (resources/s3),    *)
(*   - the S3 provider and the provider registry (internal/resources).     *)
(* Each subsystem has its own specification over the shared variables:     *)
(* SpecLocal, SpecUpload, SpecProviders, SpecDelivery, SpecThumb,          *)
(* SpecLazy and SpecRegistry.                                              *)
(***************************************************************************)
EXTENDS Integers, Sequences, FiniteSets, TLC

VARIABLES
    \* ---- Local provider ----
    clock,      \* wall clock, seconds since the epoch (time.Now().Unix())
    uuidSeq,    \* number of tokens util.GenUUID has handed out
    local,      \* the Local struct: [pattern, rawKey] (rootDir is RootDir)
    files,      \* the filesystem under the root: path -> content
    stored,     \* history: key -> payload of the last successful Upload, no Delete since
    lastOp,     \* result of the last provider call
    \* ---- delivery handler and thumbnail cache ----
    availableGeneratorAmount,  \* the package-level budget counter
    capacity,                  \* the value the counter was configured with
    thumbFiles,                \* thumbnail cache files present on disk
    req,                       \* per request: inputs, position and locals of the handler
    \* ---- lazyInit ----
    lz,         \* the lazyInit fields value and ready
    lock,       \* the sync.RWMutex: [readers, writer]
    caller,     \* per caller of Get: position, locals and result
    initRuns,   \* number of executions of the initializer started so far
    initLog,    \* history: the finished executions, [id, ok] in order of finishing
    \* ---- one call of Local.Upload, step by step ----
    up,         \* position and locals of the call, and what it returned
    \* ---- S3 provider ----
    bucket,     \* the objects of the bucket: key -> content
    \* ---- provider registry ----
    providers,  \* the sync.Map: provider name -> registered factory
    registered, \* history: the names RegisterProvider was called with
    lastCreate, \* result of the last CreateProvider call
    \* ---- metadata store ----
    rows,       \* the resource table: ID -> row
    nextID,     \* the ID the driver gives the next created resource
    storages,   \* the storage table, in ID order: [name, type, rawKey]
    call,       \* position, locals and result of the current Store call
    mig         \* position and locals of MigrateLocalResourcesToStorages

localVars == <<clock, uuidSeq, local, files, stored, lastOp>>
thumbVars == <<availableGeneratorAmount, capacity, thumbFiles, req>>
lazyVars  == <<lz, lock, caller, initRuns, initLog>>
uploadVars == <<up>>
s3Vars == <<bucket>>
registryVars == <<providers, registered, lastCreate>>
storeVars == <<rows, nextID, storages, call, mig>>
vars == <<clock, uuidSeq, local, files, stored, lastOp,
          availableGeneratorAmount, capacity, thumbFiles, req,
          lz, lock, caller, initRuns, initLog,
          up, bucket, providers, registered, lastCreate,
          rows, nextID, storages, call, mig>>

----------------------------------------------------------------------------
(* Bounds of the model *)

MaxClock == 1       \* the clock runs from 0 to MaxClock
MaxUuid == 2        \* GenUUID calls explored
MaxRequests == 2    \* concurrent requests of the thumbnail specification
MaxCapacity == 1    \* the configured budget capacity (32 in the program)
MaxCallers == 2     \* concurrent callers of lazyInit.Get
MaxGets == 2        \* calls of Get per caller
MaxTemp == 2        \* names os.CreateTemp can draw for one destination
MaxRows == 65       \* resources in the table when the migration runs

----------------------------------------------------------------------------
(* Local provider: path derivation *)

RootDir == "/data"

\* Keys as sequences of path segments ("ab/k1" is <<"ab", "k1">>).
Keys == { <<"ab", "k1">>, <<"cd", ".", "k2">> }

Payloads == { "p1", "p2" }

\* Config.Pattern as a sequence of literals and placeholders; <<>> is the unset pattern.
Patterns ==
    { <<>>,
      <<"{filename}">>,
      <<"blobs">>,
      <<"{second}", "_", "{filename}">>,
      <<"{uuid}", "-", "{filename}">> }

NoContent == "<none>"

RECURSIVE JoinWith(_, _)
JoinWith(segs, sep) ==
    IF segs = <<>> THEN ""
    ELSE IF Len(segs) = 1 THEN segs[1]
    ELSE segs[1] \o sep \o JoinWith(Tail(segs), sep)

RECURSIVE Concat(_)
Concat(parts) == IF parts = <<>> THEN "" ELSE parts[1] \o Concat(Tail(parts))

\* fmt.Sprintf("%02d", n)
Pad2(n) == IF n < 10 THEN "0" \o ToString(n) ELSE ToString(n)

\* path.Clean on a relative key: drops ".", resolves "x/..", keeps leading "..".
RECURSIVE CleanFrom(_, _)
CleanFrom(segs, acc) ==
    IF segs = <<>> THEN acc
    ELSE IF segs[1] = "." THEN CleanFrom(Tail(segs), acc)
    ELSE IF segs[1] = ".." /\ acc # <<>> /\ acc[Len(acc)] # ".."
         THEN CleanFrom(Tail(segs), SubSeq(acc, 1, Len(acc) - 1))
    ELSE CleanFrom(Tail(segs), Append(acc, segs[1]))

Clean(segs) == CleanFrom(segs, <<>>)

\* One placeholder of replacePathTemplate at time t; uuid is the token GenUUID returns.
\* The calendar fields are those of UTC, exact for t within January 1970.
RenderToken(tok, filename, t, uuid) ==
    CASE tok = "{filename}"  -> filename
      [] tok = "{timestamp}" -> ToString(t)
      [] tok = "{year}"      -> "1970"
      [] tok = "{month}"     -> "01"
      [] tok = "{day}"       -> Pad2(1 + (t \div 86400))
      [] tok = "{hour}"      -> Pad2((t \div 3600) % 24)
      [] tok = "{minute}"    -> Pad2((t \div 60) % 60)
      [] tok = "{second}"    -> Pad2(t % 60)
      [] tok = "{uuid}"      -> "uuid" \o ToString(uuid)
      [] OTHER               -> tok

replacePathTemplate(path, filename, t, uuid) ==
    Concat([i \in 1..Len(path) |-> RenderToken(path[i], filename, t, uuid)])

HasToken(path, tok) == \E i \in 1..Len(path) : path[i] = tok

DefaultPattern == <<"assets/", "{timestamp}", "_", "{filename}">>

formatFile(pattern, filename, t, uuid) ==
    LET localStoragePath == IF pattern # <<>> THEN pattern ELSE DefaultPattern
        internalPath == IF HasToken(localStoragePath, "{filename}")
                        THEN localStoragePath
                        ELSE localStoragePath \o <<"/", "{filename}">>
    IN  replacePathTemplate(internalPath, filename, t, uuid)

\* Local.getPath evaluated at time t: root / dir(key) / formatFile(base(key)).
getPath(pattern, key, t, uuid) ==
    LET res  == Clean(key)
        dir  == SubSeq(res, 1, Len(res) - 1)
        base == res[Len(res)]
    IN  JoinWith(<<RootDir>> \o dir \o <<formatFile(pattern, base, t, uuid)>>, "/")

\* Whether formatting under this pattern draws a fresh uuid.
UsesUuid(pattern) == HasToken(IF pattern # <<>> THEN pattern ELSE DefaultPattern, "{uuid}")

----------------------------------------------------------------------------
(* Local provider: Upload, Download, Delete *)

EmptyMap == [p \in {} |-> NoContent]

Put(f, k, v) == [x \in (DOMAIN f) \cup {k} |-> IF x = k THEN v ELSE f[x]]

Drop(f, k) == [x \in (DOMAIN f) \ {k} |-> f[x]]

\* const Name of the packages local and s3.
LocalName == "local"

S3Name == "S3"

NoOp ==
    [provider |-> "none", op |-> "none", key |-> <<>>, kind |-> "none",
     content |-> NoContent, repeat |-> FALSE]

\* The outcome of a provider call: kind is "ok", "notfound" for an error that
\* is ErrNotFound (possibly wrapped), "error" for any other error; repeat
\* says that the call before it was the same call and returned no error.
Outcome(provider, op, key, kind, content) ==
    [provider |-> provider, op |-> op, key |-> key, kind |-> kind,
     content |-> content,
     repeat |-> /\ lastOp.provider = provider
                /\ lastOp.op = op
                /\ lastOp.key = key
                /\ lastOp.kind = "ok"]

\* The uuid a formatting call draws, and the counter after it.
NextUuid == uuidSeq + 1

DrawUuid ==
    IF UsesUuid(local.pattern)
    THEN uuidSeq < MaxUuid /\ uuidSeq' = NextUuid
    ELSE uuidSeq' = uuidSeq

\* Local.Upload: the payload is written to a temporary file in the target
\* directory and renamed over getPath(key), the path formatted at the time
\* of the call; any error before the rename removes the temporary file and
\* leaves the destination as it was.
LocalUpload(key, payload, ok) ==
    LET resourcePath == getPath(local.pattern, key, clock, NextUuid)
    IN  /\ DrawUuid
        /\ IF ok
           THEN /\ files' = Put(files, resourcePath, payload)
                /\ stored' = Put(stored, key, payload)
                /\ lastOp' = Outcome(LocalName, "upload", key, "ok", NoContent)
           ELSE /\ UNCHANGED <<files, stored>>
                /\ lastOp' = Outcome(LocalName, "upload", key, "error", NoContent)
        /\ UNCHANGED <<clock, local>>
        /\ UNCHANGED <<thumbVars, lazyVars, uploadVars, s3Vars, registryVars, storeVars>>

\* The path Local.Download hands to os.Open. In raw-key mode the joined key
\* is assigned to key and resourcePath keeps its zero value, the empty string.
DownloadPathOf(provider, key, t, uuid) ==
    IF provider.rawKey THEN "" ELSE getPath(provider.pattern, key, t, uuid)

DownloadPath(key, t, uuid) == DownloadPathOf(local, key, t, uuid)

\* Variant: a missing file is reported like any other open error.
OpenResultGeneric(key, resourcePath, ioErr) ==
    IF resourcePath \notin DOMAIN files \/ ioErr
    THEN Outcome(LocalName, "download", key, "error", NoContent)
    ELSE Outcome(LocalName, "download", key, "ok", files[resourcePath])

\* What os.Open(resourcePath) and the error mapping of Local.Download give:
\* a missing file is ErrNotFound, any other open error is returned wrapped.
OpenResult(key, resourcePath, ioErr) ==
    IF resourcePath \notin DOMAIN files
    THEN Outcome(LocalName, "download", key, "notfound", NoContent)
    ELSE IF ioErr
    THEN Outcome(LocalName, "download", key, "error", NoContent)
    ELSE Outcome(LocalName, "download", key, "ok", files[resourcePath])

\* Local.Download.
LocalDownload(key, ioErr) ==
    LET resourcePath == DownloadPath(key, clock, NextUuid)
    IN  /\ IF local.rawKey THEN uuidSeq' = uuidSeq ELSE DrawUuid
        /\ lastOp' = OpenResult(key, resourcePath, ioErr)
        /\ UNCHANGED <<clock, local, files, stored>>
        /\ UNCHANGED <<thumbVars, lazyVars, uploadVars, s3Vars, registryVars, storeVars>>

\* Local.Delete: os.Remove of getPath(key); a missing file is no error. The
\* key counts as deleted once a Delete of it has returned without error.
LocalDelete(key, ioErr) ==
    LET resourcePath == getPath(local.pattern, key, clock, NextUuid)
    IN  /\ DrawUuid
        /\ IF resourcePath \in DOMAIN files /\ ioErr
           THEN /\ UNCHANGED <<files, stored>>
                /\ lastOp' = Outcome(LocalName, "delete", key, "error", NoContent)
           ELSE /\ files' = Drop(files, resourcePath)
                /\ stored' = Drop(stored, key)
                /\ lastOp' = Outcome(LocalName, "delete", key, "ok", NoContent)
        /\ UNCHANGED <<clock, local>>
        /\ UNCHANGED <<thumbVars, lazyVars, uploadVars, s3Vars, registryVars, storeVars>>

\* Wall-clock time passes between calls.
Tick ==
    /\ clock < MaxClock
    /\ clock' = clock + 1
    /\ UNCHANGED <<uuidSeq, local, files, stored, lastOp>>
    /\ UNCHANGED <<thumbVars, lazyVars, uploadVars, s3Vars, registryVars, storeVars>>

----------------------------------------------------------------------------
(* Local provider: one call of Upload, statement by statement *)

\* The payload reader hands its bytes over in chunks; the payload is their
\* concatenation, one of Payloads.
PayloadChunks == { <<"p", "1">>, <<"p", "2">> }

TempSuffixes == 1..MaxTemp

\* Variant: the payload is written straight to the destination.
TempNameIsDestination(resourcePath, n) == resourcePath

\* The name os.CreateTemp(dataDir, Base(resourcePath) + ".tmp.*") creates with
\* the random string n: a file of Dir(resourcePath), the destination's directory.
TempName(resourcePath, n) == resourcePath \o ".tmp." \o ToString(n)

\* The content of the file at a path, NoContent when there is none.
ContentAt(path) == IF path \in DOMAIN files THEN files[path] ELSE NoContent

IdleUpload ==
    [pc |-> "idle", key |-> <<>>, payload |-> <<>>, resourcePath |-> "",
     tempName |-> "", copied |-> 0, prev |-> NoContent, err |-> "none",
     result |-> "none", observed |-> FALSE]

UploadRunning == up.pc \notin {"idle", "returned", "crashed"}

\* Frame of a statement of Upload that leaves the filesystem alone.
UploadStep(fields) ==
    /\ up' = fields @@ up
    /\ UNCHANGED <<clock, uuidSeq, local, files, lastOp>>
    /\ UNCHANGED <<thumbVars, lazyVars, s3Vars, registryVars, storeVars>>

\* Frame of a statement of Upload that changes the filesystem.
UploadWrite(fields, fs) ==
    /\ up' = fields @@ up
    /\ files' = fs
    /\ UNCHANGED <<clock, uuidSeq, local, lastOp>>
    /\ UNCHANGED <<thumbVars, lazyVars, s3Vars, registryVars, storeVars>>

\* Return of an error before any defer is registered.
UploadFails(err) ==
    UploadStep([pc |-> "returned", err |-> err, result |-> "error"])

\* Call of Upload: the destination is getPath(key) at the time of the call.
UploadBegin(key, payload) ==
    LET resourcePath == getPath(local.pattern, key, clock, NextUuid)
    IN  /\ up.pc = "idle"
        /\ DrawUuid
        /\ up' = [IdleUpload EXCEPT !.pc = "mkdir", !.key = key,
                                    !.payload = payload,
                                    !.resourcePath = resourcePath,
                                    !.prev = ContentAt(resourcePath)]
        /\ UNCHANGED <<clock, local, files, stored, lastOp>>
        /\ UNCHANGED <<thumbVars, lazyVars, s3Vars, registryVars, storeVars>>

\* os.MkdirAll(dataDir, 0600)
MkdirAll(ok) ==
    /\ up.pc = "mkdir"
    /\ UNCHANGED stored
    /\ IF ok THEN UploadStep([pc |-> "create"]) ELSE UploadFails("mkdir")

\* os.CreateTemp: a new empty file under a name that is not in use (it draws
\* again when the name is taken), or an error.
CreateTemp(n, ok) ==
    LET name == TempName(up.resourcePath, n)
    IN  /\ up.pc = "create"
        /\ UNCHANGED stored
        /\ IF ok
           THEN /\ name \notin DOMAIN files
                /\ UploadWrite([pc |-> "copy", tempName |-> name],
                               Put(files, name, ""))
           ELSE UploadFails("create")

\* io.Copy(tempFile, payload): the chunks are appended one by one; a read or
\* write error ends the copy with the chunks written so far in the file.
CopyChunk(ok) ==
    /\ up.pc = "copy"
    /\ UNCHANGED stored
    /\ IF ~ok
       THEN UploadStep([pc |-> "deferClose", err |-> "copy", result |-> "error"])
       ELSE IF up.copied < Len(up.payload)
       THEN UploadWrite([copied |-> up.copied + 1],
                        Put(files, up.tempName,
                            files[up.tempName] \o up.payload[up.copied + 1]))
       ELSE UploadStep([pc |-> "close"])

\* tempFile.Close()
CloseTemp(ok) ==
    /\ up.pc = "close"
    /\ UNCHANGED stored
    /\ IF ok
       THEN UploadStep([pc |-> "rename"])
       ELSE UploadStep([pc |-> "deferClose", err |-> "close", result |-> "error"])

\* os.Rename(tempFile.Name(), resourcePath): the name of the temporary file
\* goes away and the destination names its content, in one step.
Rename(ok) ==
    /\ up.pc = "rename"
    /\ IF ok
       THEN /\ UploadWrite([pc |-> "deferClose", result |-> "ok"],
                           Put(Drop(files, up.tempName), up.resourcePath,
                               files[up.tempName]))
            /\ stored' = Put(stored, up.key, files[up.tempName])
       ELSE /\ UploadStep([pc |-> "deferClose", err |-> "rename",
                           result |-> "error"])
            /\ UNCHANGED stored

\* defer tempFile.Close(): runs first on every return after CreateTemp.
DeferredClose ==
    /\ up.pc = "deferClose"
    /\ UNCHANGED stored
    /\ UploadStep([pc |-> "deferRemove"])

\* Variant: the temporary file is left behind.
DeferredRemoveSkipped ==
    /\ up.pc = "deferRemove"
    /\ UNCHANGED stored
    /\ UploadWrite([pc |-> "returned"], files)

\* defer os.Remove(tempFile.Name()): runs last; after a rename the name is
\* gone already and nothing is removed.
DeferredRemove ==
    /\ up.pc = "deferRemove"
    /\ UNCHANGED stored
    /\ UploadWrite([pc |-> "returned"], Drop(files, up.tempName))

\* The process dies between two statements: no deferred call runs and the
\* filesystem stays as it is.
Crash ==
    /\ UploadRunning
    /\ UNCHANGED stored
    /\ UploadStep([pc |-> "crashed"])

\* A Download that runs while the Upload does and opens the same path.
DownloadDuringUpload(ioErr) ==
    /\ UploadRunning
    /\ DownloadPath(up.key, clock, NextUuid) = up.resourcePath
    /\ lastOp' = OpenResult(up.key, up.resourcePath, ioErr)
    /\ up' = [up EXCEPT !.observed = TRUE]
    /\ UNCHANGED <<clock, uuidSeq, local, files, stored>>
    /\ UNCHANGED <<thumbVars, lazyVars, s3Vars, registryVars, storeVars>>

----------------------------------------------------------------------------
(* S3 provider *)

\* What the service answers a GetObject or DeleteObject of a key: "nil" (no
\* error), the NoSuchKey error when the key has no object, or another error.
ServiceAnswers(key) ==
    IF key \in DOMAIN bucket THEN {"nil", "fault"}
    ELSE {"nil", "NoSuchKey", "fault"}

\* Variant: NoSuchKey is not recognised.
isMissedKeyNever(err) == FALSE

isMissedKey(err) == err # "nil" /\ err = "NoSuchKey"

\* s3.client.Get(ctx) by one caller at a time: the ready value, or the value
\* of the initializer, which is kept only when the initializer succeeds.
ClientReady(init) == lz.ready \/ init

ClientGet(init) ==
    /\ lz' = IF lz.ready \/ ~init THEN lz ELSE [value |-> 1, ready |-> TRUE]
    /\ UNCHANGED <<lock, caller, initRuns, initLog>>

\* Frame of an S3 call.
S3Call(outcome, objects, init) ==
    /\ lastOp' = outcome
    /\ bucket' = objects
    /\ ClientGet(init)
    /\ UNCHANGED <<clock, uuidSeq, local, files, stored>>
    /\ UNCHANGED <<thumbVars, uploadVars, registryVars, storeVars>>

\* S3.Upload
S3Upload(key, payload, init, ok) ==
    IF ClientReady(init) /\ ok
    THEN S3Call(Outcome(S3Name, "upload", key, "ok", NoContent),
                Put(bucket, key, payload), init)
    ELSE S3Call(Outcome(S3Name, "upload", key, "error", NoContent), bucket, init)

\* The error S3.Download returns for a GetObject error: NoSuchKey is replaced
\* by ErrNotFound, and then ErrNotFound is what gets wrapped for any error.
S3DownloadError(err) ==
    LET mapped == IF isMissedKey(err) THEN "ErrNotFound" ELSE err
    IN  IF mapped # "nil" THEN "notfound" ELSE "ok"

\* S3.Download
S3Download(key, init, err) ==
    /\ err \in ServiceAnswers(key)
    /\ err = "nil" => key \in DOMAIN bucket
    /\ IF ~ClientReady(init)
       THEN S3Call(Outcome(S3Name, "download", key, "error", NoContent),
                   bucket, init)
       ELSE IF err # "nil"
       THEN S3Call(Outcome(S3Name, "download", key, S3DownloadError(err),
                           NoContent), bucket, init)
       ELSE S3Call(Outcome(S3Name, "download", key, "ok", bucket[key]),
                   bucket, init)

\* S3.Delete: NoSuchKey is no error.
S3Delete(key, init, err) ==
    /\ err \in ServiceAnswers(key)
    /\ IF ~ClientReady(init)
       THEN S3Call(Outcome(S3Name, "delete", key, "error", NoContent),
                   bucket, init)
       ELSE IF err # "nil" /\ ~isMissedKey(err)
       THEN S3Call(Outcome(S3Name, "delete", key, "error", NoContent),
                   bucket, init)
       ELSE S3Call(Outcome(S3Name, "delete", key, "ok", NoContent),
                   Drop(bucket, key), init)

----------------------------------------------------------------------------
(* Calls through the ResourceProvider interface *)

ProviderNames == {LocalName, S3Name}

\* A storage has one provider: every call of a behaviour goes to the
\* provider its first call went to.
Serves(provider) == lastOp.provider \in {"none", provider}

\* What a call can meet outside the program: whether the initializer of the
\* S3 client succeeds if it runs, and the error of the filesystem or service.
Environments(provider) ==
    IF provider = LocalName
    THEN [init : {TRUE}, err : {"nil", "fault"}]
    ELSE [init : BOOLEAN, err : {"nil", "NoSuchKey", "fault"}]

\* provider.Upload(ctx, key, payload)
ProviderUpload(provider, key, payload, init, ok) ==
    /\ Serves(provider)
    /\ IF provider = LocalName
       THEN LocalUpload(key, payload, ok)
       ELSE S3Upload(key, payload, init, ok)

\* provider.Download(ctx, key); a filesystem or service error is the I/O
\* error of the Local provider.
ProviderDownload(provider, key, init, err) ==
    /\ Serves(provider)
    /\ IF provider = LocalName
       THEN LocalDownload(key, err = "fault")
       ELSE S3Download(key, init, err)

\* provider.Delete(ctx, key)
ProviderDelete(provider, key, init, err) ==
    /\ Serves(provider)
    /\ IF provider = LocalName
       THEN LocalDelete(key, err = "fault")
       ELSE S3Delete(key, init, err)

----------------------------------------------------------------------------
(* Delivery handler: requests *)

Requests == 1..MaxRequests

\* What GetMemo finds for resource.MemoID: no MemoID at all, no such memo,
\* or a memo of the given store.Visibility.
MemoStates == { "none", "missing", "PUBLIC", "PROTECTED", "PRIVATE" }

\* c.Get(userIDContextKey).(int32): the value and the ok of the type assertion.
Anonymous == [ok |-> FALSE, id |-> 0]

Callers == { Anonymous, [ok |-> TRUE, id |-> 1], [ok |-> TRUE, id |-> 2] }

CreatorIDs == { 1 }

ResourceIDs == { 1, 2 }

Types == { "image/png", "image/jpeg", "text/plain" }

Exts == { ".png" }

\* One request: the resource it resolves to, the caller and the query flag.
\* The payload-location fields of the resource say which of StorageID, Blob,
\* InternalPath and ExternalLink are set; here the bytes are behind a link.
RequestInputs ==
    [ id : ResourceIDs, ext : Exts, type : Types, creator : CreatorIDs,
      memo : MemoStates, caller : Callers, thumbnail : BOOLEAN,
      storageID : {FALSE}, blob : {FALSE}, internalPath : {FALSE},
      externalLink : {TRUE} ]

\* Declared types and file extensions of the resources of content requests.
ContentTypes == Types \cup { "Text/HTML" }

ContentExts == Exts \cup { ".html" }

\* Requests of an anonymous caller on a resource without memo, with every
\* combination of set and unset payload-location fields.
ContentInputs ==
    [ id : {1}, ext : ContentExts, type : ContentTypes, creator : CreatorIDs,
      memo : {"none"}, caller : {Anonymous}, thumbnail : BOOLEAN,
      storageID : BOOLEAN, blob : BOOLEAN, internalPath : BOOLEAN,
      externalLink : BOOLEAN ]

\* Thumbnail requests on image resources that pass the visibility check.
ThumbnailInputs ==
    { in \in RequestInputs :
        /\ in.thumbnail
        /\ in.type = "image/png"
        /\ in.memo = "none"
        /\ in.caller = Anonymous }

NoInput ==
    [ id |-> 1, ext |-> ".png", type |-> "text/plain", creator |-> 1,
      memo |-> "none", caller |-> Anonymous, thumbnail |-> FALSE,
      storageID |-> FALSE, blob |-> FALSE, internalPath |-> FALSE,
      externalLink |-> TRUE ]

IdleRequest ==
    [ pc |-> "idle", in |-> NoInput,
      memoSeen |-> "",          \* what GetMemo returned, "" while it returned nothing
      thumbErr |-> "",          \* error of getOrGenerateThumbnailImage, "" for nil
      held |-> FALSE,           \* the deferred release is pending
      status |-> 0,             \* HTTP status of the response, 0 while none
      body |-> "none",          \* what the response streams: original or thumbnail
      contentCalls |-> 0,       \* calls of Store.GetResourceContent
      tookUnit |-> FALSE,       \* the request decremented the budget counter
      hit |-> FALSE,            \* os.Stat found the cache file
      loaded |-> FALSE,         \* the request read the budget counter
      generated |-> FALSE,      \* imaging.Save wrote the thumbnail
      midWrite |-> FALSE,       \* os.Open gave a file another request was writing
      lateLoad |-> FALSE,       \* another request had left the thumbnail call at the load
      reopen |-> "no",          \* outcome of the second GetResourceContent
      source |-> "none",        \* the source the last GetResourceContent used
      opened |-> {},            \* the streams the request has opened
      deferred |-> {},          \* the streams whose Close is deferred
      closed |-> {},            \* the streams Close has been called on
      kind |-> "none",          \* its result: "ok", "notfound" or "error"
      seekable |-> FALSE,       \* the stream it returned is an io.ReadSeeker
      served |-> "none",        \* the serving branch: "ServeContent" or "Stream"
      contentType |-> "" ]      \* Content-Type of the response

\* util.HasPrefixes(resource.Type, "image/png", "image/jpeg") on Types.
IsThumbnailType(type) == type \in { "image/png", "image/jpeg" }

\* filepath.Join(Profile.Data, thumbnailImagePath, fmt.Sprintf("%d%s", ID, ext))
ThumbnailPath(in) == ".thumbnail_cache/" \o ToString(in.id) \o in.ext

ThumbnailPaths == { ThumbnailPath(in) : in \in RequestInputs }

\* Positions inside getOrGenerateThumbnailImage.
InThumbnailCall ==
    { "stat", "load", "take", "decode", "mkdir", "save", "encode", "open",
      "release" }

\* Positions after getOrGenerateThumbnailImage has returned.
AfterThumbnailCall == { "reopen", "serve", "done" }

\* Assigns the given fields of request r; the other subsystems are not touched.
Set(r, fields) ==
    /\ req' = [req EXCEPT ![r] = [f \in DOMAIN req[r] |->
                  IF f \in DOMAIN fields THEN fields[f] ELSE req[r][f]]]
    /\ UNCHANGED <<localVars, lazyVars, uploadVars, s3Vars, registryVars, storeVars>>

Begin(r, in) ==
    /\ req[r].pc = "idle"
    /\ Set(r, [pc |-> "visibility", in |-> in])
    /\ UNCHANGED <<availableGeneratorAmount, capacity, thumbFiles>>

BeginRequest(r) == \E in \in RequestInputs : Begin(r, in)

BeginThumbnailRequest(r) == \E in \in ThumbnailInputs : Begin(r, in)

BeginContentRequest(r) == \E in \in ContentInputs : Begin(r, in)

\* Mutant: the creator of a private memo's resource is not compared with the caller.
RejectsWithoutCreatorCheck(memo, who, creator) ==
    /\ memo \notin { "none", "missing" }
    /\ memo # "PUBLIC"
    /\ ~who.ok

\* Mutant: the check is not skipped for a public memo.
RejectsPublicToo(memo, who, creator) ==
    /\ memo \notin { "none", "missing" }
    /\ (~who.ok \/ (memo = "PRIVATE" /\ who.id # creator))

\* The condition of the unauthorized answer: the memo exists and is not
\* public, and the caller is unidentified or, for a private memo, not the creator.
Rejects(memo, who, creator) ==
    /\ memo \notin { "none", "missing" }
    /\ memo # "PUBLIC"
    /\ (~who.ok \/ (memo = "PRIVATE" /\ who.id # creator))

\* Mutant: the content is resolved before the visibility of the memo is checked.
CheckVisibilityAfterContent(r) ==
    /\ req[r].pc = "visibility"
    /\ \E memoErr \in BOOLEAN :
         LET in == req[r].in
             n  == req[r].contentCalls + 1 IN
         IF in.memo = "none" THEN
             ~memoErr /\ Set(r, [pc |-> "resolve"])
         ELSE IF memoErr THEN
             Set(r, [pc |-> "done", status |-> 500, contentCalls |-> n])
         ELSE IF Rejects(in.memo, in.caller, in.creator) THEN
             Set(r, [pc |-> "done", status |-> 401, memoSeen |-> in.memo,
                     contentCalls |-> n])
         ELSE
             Set(r, [pc |-> "resolve", memoSeen |-> in.memo])
    /\ UNCHANGED <<availableGeneratorAmount, capacity, thumbFiles>>

\* streamResourceContent, the visibility check before any content is resolved.
CheckVisibility(r) ==
    /\ req[r].pc = "visibility"
    /\ \E memoErr \in BOOLEAN :
         LET in == req[r].in IN
         IF in.memo = "none" THEN
             ~memoErr /\ Set(r, [pc |-> "resolve"])
         ELSE IF memoErr THEN
             Set(r, [pc |-> "done", status |-> 500])
         ELSE IF Rejects(in.memo, in.caller, in.creator) THEN
             Set(r, [pc |-> "done", status |-> 401, memoSeen |-> in.memo])
         ELSE
             Set(r, [pc |-> "resolve", memoSeen |-> in.memo])
    /\ UNCHANGED <<availableGeneratorAmount, capacity, thumbFiles>>

\* A result of Store.GetResourceContent: the source it used, "ok", "notfound"
\* (the bytes are absent) or "error", and whether the stream can seek.
Content(source, kind, seekable) ==
    [source |-> source, kind |-> kind, seekable |-> seekable]

\* What the provider of the storage can give: an *os.File (Local), a response
\* body (S3), ErrNotFound, or an error of GetStorage, CreateProvider or
\* Download.
ProviderContents ==
    { Content("provider", "ok", TRUE), Content("provider", "ok", FALSE),
      Content("provider", "notfound", FALSE), Content("provider", "error", FALSE) }

\* io.NopCloser(bytes.NewReader(r.Blob)): a reader that cannot seek.
BlobContents == { Content("blob", "ok", FALSE) }

\* os.Open of the legacy path: the file, a missing file, or another error.
FileContents ==
    { Content("file", "ok", TRUE), Content("file", "notfound", FALSE),
      Content("file", "error", FALSE) }

\* openLink: the response body, or an error.
LinkContents == { Content("link", "ok", FALSE), Content("link", "error", FALSE) }

\* Variant: embedded bytes are preferred to the provider reference.
GetResourceContentBlobFirst(in) ==
    IF in.blob THEN BlobContents
    ELSE IF in.storageID THEN ProviderContents
    ELSE IF in.internalPath THEN FileContents
    ELSE IF in.externalLink THEN LinkContents
    ELSE { Content("none", "notfound", FALSE) }

\* Store.GetResourceContent: the results it can return for a resource.
GetResourceContent(in) ==
    IF in.storageID THEN ProviderContents
    ELSE IF in.blob THEN BlobContents
    ELSE IF in.internalPath THEN FileContents
    ELSE IF in.externalLink THEN LinkContents
    ELSE { Content("none", "notfound", FALSE) }

\* The first Store.GetResourceContent and the choice of the thumbnail branch.
ResolveContent(r) ==
    /\ req[r].pc = "resolve"
    /\ \E content \in GetResourceContent(req[r].in) :
         LET in == req[r].in
             n  == req[r].contentCalls + 1 IN
         IF content.kind # "ok" THEN
             Set(r, [pc |-> "done", status |-> 500, contentCalls |-> n] @@ content)
         ELSE IF in.thumbnail /\ IsThumbnailType(in.type) THEN
             Set(r, [pc |-> "stat", contentCalls |-> n,
                     opened |-> { "original" }, deferred |-> { "original" }]
                    @@ content)
         ELSE
             Set(r, [pc |-> "serve", body |-> "original", contentCalls |-> n,
                     opened |-> { "original" }, deferred |-> { "original" }]
                    @@ content)
    /\ UNCHANGED <<availableGeneratorAmount, capacity, thumbFiles>>

----------------------------------------------------------------------------
(* getOrGenerateThumbnailImage, one step per call the function makes *)

\* Mutant: a thumbnail error ends the request with an error status.
ReturnFromThumbnailPropagating(err) ==
    IF err = ""
    THEN [pc |-> "serve", body |-> "thumbnail", thumbErr |-> err,
          opened |-> { "original", "thumbnail" },
          deferred |-> { "original", "thumbnail" },
          closed |-> { "original" }]
    ELSE [pc |-> "done", status |-> 500, thumbErr |-> err,
          closed |-> { "original" }]

\* Variant: the Close of the thumbnail file is not deferred.
ReturnFromThumbnailUnclosed(err) ==
    IF err = ""
    THEN [pc |-> "serve", body |-> "thumbnail", thumbErr |-> err,
          opened |-> { "original", "thumbnail" },
          closed |-> { "original" }]
    ELSE [pc |-> "reopen", thumbErr |-> err, closed |-> { "original" }]

\* Where the function returns to in streamResourceContent: the original
\* stream, the only one open so far, is closed; then the thumbnail is served
\* on success, with the Close of its file deferred, and the original is
\* re-opened on an error.
ReturnFromThumbnail(err) ==
    IF err = ""
    THEN [pc |-> "serve", body |-> "thumbnail", thumbErr |-> err,
          opened |-> { "original", "thumbnail" },
          deferred |-> { "original", "thumbnail" },
          closed |-> { "original" }]
    ELSE [pc |-> "reopen", thumbErr |-> err, closed |-> { "original" }]

\* An exit of the function: straight back, or through the deferred release
\* when a unit was taken.
ExitThumbnail(r, err) ==
    IF req[r].held THEN [pc |-> "release", thumbErr |-> err]
    ELSE ReturnFromThumbnail(err)

\* Variant: the budget gate is passed on a cache hit too.
StatThumbnailThroughGate(r) ==
    /\ req[r].pc = "stat"
    /\ \E statErr \in BOOLEAN :
         IF statErr THEN Set(r, ReturnFromThumbnail("stat"))
         ELSE IF ThumbnailPath(req[r].in) \in thumbFiles
         THEN Set(r, [pc |-> "load", hit |-> TRUE])
         ELSE Set(r, [pc |-> "load"])
    /\ UNCHANGED <<availableGeneratorAmount, capacity, thumbFiles>>

\* os.Stat(dstPath)
StatThumbnail(r) ==
    /\ req[r].pc = "stat"
    /\ \E statErr \in BOOLEAN :
         IF statErr THEN Set(r, ReturnFromThumbnail("stat"))
         ELSE IF ThumbnailPath(req[r].in) \in thumbFiles
         THEN Set(r, [pc |-> "open", hit |-> TRUE])
         ELSE Set(r, [pc |-> "load"])
    /\ UNCHANGED <<availableGeneratorAmount, capacity, thumbFiles>>

\* atomic.LoadInt32(&availableGeneratorAmount) <= 0
LoadBudget(r) ==
    /\ req[r].pc = "load"
    /\ LET late == \E o \in Requests \ {r} : req[o].pc \in AfterThumbnailCall IN
       IF availableGeneratorAmount <= 0
       THEN Set(r, ReturnFromThumbnail("capacity")
                   @@ [lateLoad |-> late, loaded |-> TRUE])
       ELSE Set(r, [pc |-> "take", lateLoad |-> late, loaded |-> TRUE])
    /\ UNCHANGED <<availableGeneratorAmount, capacity, thumbFiles>>

\* atomic.AddInt32(&availableGeneratorAmount, -1) and the defer of the release
TakeBudget(r) ==
    /\ req[r].pc = "take"
    /\ availableGeneratorAmount' = availableGeneratorAmount - 1
    /\ Set(r, [pc |-> "decode", held |-> TRUE, tookUnit |-> TRUE])
    /\ UNCHANGED <<capacity, thumbFiles>>

\* imaging.Decode and imaging.Resize
DecodeImage(r) ==
    /\ req[r].pc = "decode"
    /\ \E ok \in BOOLEAN :
         IF ok THEN Set(r, [pc |-> "mkdir"]) ELSE Set(r, ExitThumbnail(r, "decode"))
    /\ UNCHANGED <<availableGeneratorAmount, capacity, thumbFiles>>

\* os.MkdirAll(dstDir, os.ModePerm)
MakeThumbnailDir(r) ==
    /\ req[r].pc = "mkdir"
    /\ \E ok \in BOOLEAN :
         IF ok THEN Set(r, [pc |-> "save"]) ELSE Set(r, ExitThumbnail(r, "mkdir"))
    /\ UNCHANGED <<availableGeneratorAmount, capacity, thumbFiles>>

\* imaging.Save(thumbnailImage, dstPath), its first half: os.Create makes the
\* file at dstPath itself, empty, or fails.
SaveThumbnail(r) ==
    /\ req[r].pc = "save"
    /\ \E created \in BOOLEAN :
         IF created
         THEN /\ thumbFiles' = thumbFiles \cup {ThumbnailPath(req[r].in)}
              /\ Set(r, [pc |-> "encode"])
         ELSE /\ thumbFiles' = thumbFiles
              /\ Set(r, ExitThumbnail(r, "save"))
    /\ UNCHANGED <<availableGeneratorAmount, capacity>>

\* imaging.Save, its second half: the image is encoded into the file and the
\* file is closed; a failed encode leaves the file behind.
EncodeThumbnail(r) ==
    /\ req[r].pc = "encode"
    /\ \E ok \in BOOLEAN :
         IF ok THEN Set(r, [pc |-> "open", generated |-> TRUE])
         ELSE Set(r, ExitThumbnail(r, "save"))
    /\ UNCHANGED <<availableGeneratorAmount, capacity, thumbFiles>>

\* Another request is between the two halves of imaging.Save on the path.
BeingWritten(r, path) ==
    \E o \in Requests \ {r} :
      req[o].pc = "encode" /\ ThumbnailPath(req[o].in) = path

\* return os.Open(dstPath)
OpenThumbnail(r) ==
    /\ req[r].pc = "open"
    /\ \E ok \in BOOLEAN :
         /\ ok => ThumbnailPath(req[r].in) \in thumbFiles
         /\ Set(r, ExitThumbnail(r, IF ok THEN "" ELSE "open")
                   @@ [midWrite |-> ok /\ BeingWritten(r, ThumbnailPath(req[r].in))])
    /\ UNCHANGED <<availableGeneratorAmount, capacity, thumbFiles>>

\* Mutant: the unit is given back at the end of a successful generation only,
\* not by a deferred call.
ReleaseBudgetOnSuccessOnly(r) ==
    /\ req[r].pc = "release"
    /\ availableGeneratorAmount' =
         IF req[r].thumbErr = "" THEN availableGeneratorAmount + 1
         ELSE availableGeneratorAmount
    /\ Set(r, [pc |-> IF req[r].thumbErr = "" THEN "serve" ELSE "reopen",
               body |-> IF req[r].thumbErr = "" THEN "thumbnail" ELSE "none",
               held |-> FALSE])
    /\ UNCHANGED <<capacity, thumbFiles>>

\* the deferred atomic.AddInt32(&availableGeneratorAmount, 1)
ReleaseBudget(r) ==
    /\ req[r].pc = "release"
    /\ availableGeneratorAmount' = availableGeneratorAmount + 1
    /\ Set(r, ReturnFromThumbnail(req[r].thumbErr) @@ [held |-> FALSE])
    /\ UNCHANGED <<capacity, thumbFiles>>

\* After a thumbnail error: the second Store.GetResourceContent.
ReopenContent(r) ==
    /\ req[r].pc = "reopen"
    /\ \E content \in GetResourceContent(req[r].in) :
         LET n == req[r].contentCalls + 1 IN
         IF content.kind = "ok"
         THEN Set(r, [pc |-> "serve", body |-> "original",
                      contentCalls |-> n, reopen |-> "ok",
                      opened |-> req[r].opened \cup { "reopened" },
                      deferred |-> req[r].deferred \cup { "reopened" }]
                     @@ content)
         ELSE Set(r, [pc |-> "done", status |-> 500,
                      contentCalls |-> n, reopen |-> "err",
                      closed |-> req[r].closed \cup req[r].deferred]
                     @@ content)
    /\ UNCHANGED <<availableGeneratorAmount, capacity, thumbFiles>>

\* strings.ToLower on the declared types.
ToLower(type) == IF type = "Text/HTML" THEN "text/html" ELSE type

\* strings.HasPrefix(resourceType, "text") on the lowered types.
HasPrefixText(resourceType) == resourceType \in { "text/plain", "text/html" }

\* echo.MIMETextPlainCharsetUTF8
MIMETextPlainCharsetUTF8 == "text/plain; charset=UTF-8"

\* The Content-Type http.ServeContent sets when the header is not set yet:
\* the type of the extension of the name it is given, resource.Filename.
TypeByExtension(ext) ==
    IF ext = ".html" THEN "text/html; charset=utf-8" ELSE "image/png"

\* The Content-Type of the response: resourceType is handed to c.Stream only;
\* http.ServeContent takes none and the header has not been set.
ResponseType(seekable, resourceType, ext) ==
    IF seekable THEN TypeByExtension(ext) ELSE resourceType

\* Headers, the text override, then http.ServeContent for a stream that can
\* seek (an *os.File: a provider or legacy file, or the thumbnail) and
\* c.Stream with http.StatusOK otherwise.
Serve(r) ==
    /\ req[r].pc = "serve"
    /\ LET in == req[r].in
           lowered == ToLower(in.type)
           resourceType == IF HasPrefixText(lowered)
                           THEN MIMETextPlainCharsetUTF8 ELSE lowered
           seekable == req[r].body = "thumbnail" \/ req[r].seekable
       IN  Set(r, [pc |-> "done", status |-> 200,
                   closed |-> req[r].closed \cup req[r].deferred,
                   served |-> IF seekable THEN "ServeContent" ELSE "Stream",
                   contentType |-> ResponseType(seekable, resourceType, in.ext)])
    /\ UNCHANGED <<availableGeneratorAmount, capacity, thumbFiles>>

HandlerStep(r) ==
    \/ CheckVisibility(r)
    \/ ResolveContent(r)
    \/ StatThumbnail(r)
    \/ LoadBudget(r)
    \/ TakeBudget(r)
    \/ DecodeImage(r)
    \/ MakeThumbnailDir(r)
    \/ SaveThumbnail(r)
    \/ EncodeThumbnail(r)
    \/ OpenThumbnail(r)
    \/ ReleaseBudget(r)
    \/ ReopenContent(r)
    \/ Serve(r)

----------------------------------------------------------------------------
(* lazyInit.Get *)

GetCallers == 1..MaxCallers

\* The zero value of T that a fresh lazyInit holds in value.
ZeroValue == 0

NoWriter == 0

NoResult == [value |-> ZeroValue, err |-> FALSE]

IdleCaller ==
    [ pc |-> "idle",
      value |-> ZeroValue, ready |-> FALSE,   \* the locals of the optimistic read
      result |-> NoResult,                    \* what Get returned
      exec |-> 0,                             \* the initializer execution of this Get, 0 for none
      gets |-> 1 ]                            \* number of this call of Get

\* Assigns the given fields of caller c; the other subsystems are not touched.
SetCaller(c, fields) ==
    /\ caller' = [caller EXCEPT ![c] = [f \in DOMAIN caller[c] |->
                     IF f \in DOMAIN fields THEN fields[f] ELSE caller[c][f]]]
    /\ UNCHANGED <<localVars, thumbVars, uploadVars, s3Vars, registryVars, storeVars>>

\* lz.lock.RLock()
RLock(c) ==
    /\ caller[c].pc = "idle"
    /\ lock.writer = NoWriter
    /\ lock' = [lock EXCEPT !.readers = @ \cup {c}]
    /\ SetCaller(c, [pc |-> "rlocked"])
    /\ UNCHANGED <<lz, initRuns, initLog>>

\* value, ready := lz.value, lz.ready
ReadOptimistic(c) ==
    /\ caller[c].pc = "rlocked"
    /\ SetCaller(c, [pc |-> "read", value |-> lz.value, ready |-> lz.ready])
    /\ UNCHANGED <<lz, lock, initRuns, initLog>>

\* lz.lock.RUnlock(); if ready { return value, nil }
RUnlock(c) ==
    /\ caller[c].pc = "read"
    /\ lock' = [lock EXCEPT !.readers = @ \ {c}]
    /\ IF caller[c].ready
       THEN SetCaller(c, [pc |-> "returned",
                          result |-> [value |-> caller[c].value, err |-> FALSE]])
       ELSE SetCaller(c, [pc |-> "lockwait"])
    /\ UNCHANGED <<lz, initRuns, initLog>>

\* lz.lock.Lock(); defer lz.lock.Unlock()
Lock(c) ==
    /\ caller[c].pc = "lockwait"
    /\ lock.writer = NoWriter
    /\ lock.readers = {}
    /\ lock' = [lock EXCEPT !.writer = c]
    /\ SetCaller(c, [pc |-> "locked"])
    /\ UNCHANGED <<lz, initRuns, initLog>>

\* Mutant: ready is not checked again under the write lock.
CheckReadySkipped(c) ==
    /\ caller[c].pc = "locked"
    /\ initRuns' = initRuns + 1
    /\ SetCaller(c, [pc |-> "init", exec |-> initRuns + 1])
    /\ UNCHANGED <<lz, lock, initLog>>

\* if lz.ready { return lz.value, nil }; otherwise the initializer is called.
CheckReady(c) ==
    /\ caller[c].pc = "locked"
    /\ IF lz.ready
       THEN /\ SetCaller(c, [pc |-> "unlock",
                             result |-> [value |-> lz.value, err |-> FALSE]])
            /\ UNCHANGED initRuns
       ELSE /\ initRuns' = initRuns + 1
            /\ SetCaller(c, [pc |-> "init", exec |-> initRuns + 1])
    /\ UNCHANGED <<lz, lock, initLog>>

\* Mutant: ready is set before the error of the initializer is looked at.
FinishInitializerCachingFailure(c) ==
    /\ caller[c].pc = "init"
    /\ \E ok \in BOOLEAN :
         /\ initLog' = Append(initLog, [id |-> caller[c].exec, ok |-> ok])
         /\ IF ok
            THEN /\ lz' = [value |-> caller[c].exec, ready |-> TRUE]
                 /\ SetCaller(c, [pc |-> "unlock",
                                  result |-> [value |-> caller[c].exec, err |-> FALSE]])
            ELSE /\ lz' = [lz EXCEPT !.ready = TRUE]
                 /\ SetCaller(c, [pc |-> "unlock",
                                  result |-> [value |-> lz.value, err |-> TRUE]])
    /\ UNCHANGED <<lock, initRuns>>

\* The initializer returns. On an error Get returns lz.value and the error;
\* otherwise it stores the value, sets ready and returns the value. Each
\* execution produces its own value, here the number of the execution.
FinishInitializer(c) ==
    /\ caller[c].pc = "init"
    /\ \E ok \in BOOLEAN :
         /\ initLog' = Append(initLog, [id |-> caller[c].exec, ok |-> ok])
         /\ IF ok
            THEN /\ lz' = [value |-> caller[c].exec, ready |-> TRUE]
                 /\ SetCaller(c, [pc |-> "unlock",
                                  result |-> [value |-> caller[c].exec, err |-> FALSE]])
            ELSE /\ lz' = lz
                 /\ SetCaller(c, [pc |-> "unlock",
                                  result |-> [value |-> lz.value, err |-> TRUE]])
    /\ UNCHANGED <<lock, initRuns>>

\* the deferred lz.lock.Unlock() and the return
Unlock(c) ==
    /\ caller[c].pc = "unlock"
    /\ lock' = [lock EXCEPT !.writer = NoWriter]
    /\ SetCaller(c, [pc |-> "returned"])
    /\ UNCHANGED <<lz, initRuns, initLog>>

\* The caller calls Get again.
GetAgain(c) ==
    /\ caller[c].pc = "returned"
    /\ caller[c].gets < MaxGets
    /\ SetCaller(c, [IdleCaller EXCEPT !.gets = caller[c].gets + 1])
    /\ UNCHANGED <<lz, lock, initRuns, initLog>>

GetStep(c) ==
    \/ RLock(c)
    \/ ReadOptimistic(c)
    \/ RUnlock(c)
    \/ Lock(c)
    \/ CheckReady(c)
    \/ FinishInitializer(c)
    \/ Unlock(c)
    \/ GetAgain(c)

----------------------------------------------------------------------------
(* Provider registry *)

\* Names CreateProvider is asked for, registered or not.
RegistryNames == { LocalName, S3Name, "ftp" }

\* The factory functions handed to RegisterProvider.
Factories == { "f1", "f2" }

\* Configurations as JSON text: two objects and a text that is no JSON.
Configs == { "{}", "{\"RootDir\":\"/d\"}", "{" }

\* json.Unmarshal(bytes, &config): whether it succeeds, and the value decoded.
Decodes(bytes) == bytes # "{"

Unmarshal(bytes) == IF bytes = "{}" THEN "Config{}" ELSE "Config{RootDir:/d}"

\* The registry before any RegisterProvider call.
NoProviders == [name \in {} |-> ""]

NoCreate == [name |-> "", kind |-> "none", factory |-> "", config |-> ""]

\* RegisterProvider(name, factory): the map entry of the name is replaced by
\* the decoding wrapper of the factory.
RegisterProvider(name, factory) ==
    /\ providers' = Put(providers, name, factory)
    /\ registered' = registered \cup {name}
    /\ UNCHANGED lastCreate
    /\ UNCHANGED <<localVars, thumbVars, lazyVars, uploadVars, s3Vars, storeVars>>

\* Variant: a config that does not decode is reported as an unknown provider.
FactoryCallUnknownOnDecodeError(name, factory, bytes) ==
    IF ~Decodes(bytes)
    THEN [name |-> name, kind |-> "unknown", factory |-> "", config |-> ""]
    ELSE [name |-> name, kind |-> "ok", factory |-> factory,
          config |-> Unmarshal(bytes)]

\* The wrapper stored by RegisterProvider, called with the config bytes: a
\* decode error (kind "decode", not ErrProviderUnknown), or the provider the
\* factory makes of the decoded config.
FactoryCall(name, factory, bytes) ==
    IF ~Decodes(bytes)
    THEN [name |-> name, kind |-> "decode", factory |-> "", config |-> ""]
    ELSE [name |-> name, kind |-> "ok", factory |-> factory,
          config |-> Unmarshal(bytes)]

\* CreateProvider(name, config): ErrProviderUnknown (kind "unknown") when the
\* map has no entry for the name, the result of the stored wrapper otherwise.
\* Every entry is a providerFactory, so the type assertion holds.
Created(name, bytes) ==
    IF name \notin DOMAIN providers
    THEN [name |-> name, kind |-> "unknown", factory |-> "", config |-> ""]
    ELSE FactoryCall(name, providers[name], bytes)

CreateProvider(name, bytes) ==
    /\ lastCreate' = Created(name, bytes)
    /\ UNCHANGED <<providers, registered>>
    /\ UNCHANGED <<localVars, thumbVars, lazyVars, uploadVars, s3Vars, storeVars>>

----------------------------------------------------------------------------
(* Metadata store: resources *)

\* Resource names as sequences of characters.
NameChars == { "a", "/" }

ResourceNames ==
    { <<>> } \cup { <<c>> : c \in NameChars }
             \cup { <<c, d>> : c \in NameChars, d \in NameChars }

\* The characters the name pattern admits.
UrlSafeChars == { "a" }

\* util.ResourceNameMatcher.MatchString(name): a non-empty name of admitted
\* characters only.
ResourceNameMatcher(name) ==
    /\ name # <<>>
    /\ \A i \in 1..Len(name) : name[i] \in UrlSafeChars

\* Filenames as sequences of dot-separated parts ("a.png" is <<"a", "png">>).
Filenames == { <<"a", "png">>, <<"a", "jpg">> }

\* filepath.Ext: the suffix beginning at the final dot, empty without a dot.
Ext(filename) ==
    IF Len(filename) < 2 THEN "" ELSE "." \o filename[Len(filename)]

StoreTypes == { "image/png", "text/plain" }

\* The InternalPath of a legacy resource, relative to the data directory.
LegacyPath == <<"assets", "f1">>

NoPath == <<>>

\* A row of the resource table; storageID 0 is the nil StorageID.
Row(name, filename, type, internalPath, storageID, externalLink) ==
    [resourceName |-> name, filename |-> filename, type |-> type,
     internalPath |-> internalPath, storageID |-> storageID,
     externalLink |-> externalLink]

NoRow == Row(<<>>, <<>>, "", NoPath, 0, NoPath)

NoRows == [id \in {} |-> NoRow]

\* The UpdateResource struct: the optional fields with a flag saying whether
\* the pointer is set.
Update(id, hasName, name, hasFilename, filename, hasStorageID, storageID) ==
    [id |-> id, hasName |-> hasName, resourceName |-> name,
     hasFilename |-> hasFilename, filename |-> filename,
     hasStorageID |-> hasStorageID, storageID |-> storageID]

\* errors.Wrap(err, message) of github.com/pkg/errors: nil for a nil err.
Wrap(err, message) == IF err = "nil" THEN "nil" ELSE message \o ": " \o err

NoCall ==
    [op |-> "none", pc |-> "idle", id |-> 0, resource |-> NoRow, at |-> 0,
     err |-> "nil", driverCalled |-> FALSE, tried |-> {},
     content |-> NoContent]

CallIdle == call.pc \in { "idle", "done" }

\* A Store call that has returned.
CallReturned(op, id, err, driverCalled) ==
    [NoCall EXCEPT !.op = op, !.pc = "done", !.id = id, !.err = err,
                   !.driverCalled = driverCalled]

\* driver.CreateResource: the row is inserted under a fresh ID, or the
\* statement fails.
DriverCreateResource(row, ok) ==
    IF ok THEN /\ rows' = Put(rows, nextID, row)
               /\ nextID' = nextID + 1
          ELSE UNCHANGED <<rows, nextID>>

\* driver.UpdateResource: the set fields of the row are overwritten; a
\* missing row or a failed statement is an error.
DriverUpdateResource(update, ok) ==
    /\ nextID' = nextID
    /\ IF ok /\ update.id \in DOMAIN rows
       THEN rows' =
              [rows EXCEPT
                 ![update.id] =
                   [@ EXCEPT
                      !.resourceName =
                         IF update.hasName THEN update.resourceName ELSE @,
                      !.filename =
                         IF update.hasFilename THEN update.filename ELSE @,
                      !.storageID =
                         IF update.hasStorageID THEN update.storageID ELSE @]]
       ELSE rows' = rows

\* Store.CreateResource.
StoreCreateResource(name, filename, type, ok) ==
    /\ CallIdle
    /\ nextID \in ResourceIDs
    /\ IF ~ResourceNameMatcher(name)
       THEN /\ call' = CallReturned("create", 0, "invalid resource name", FALSE)
            /\ UNCHANGED <<rows, nextID>>
       ELSE /\ DriverCreateResource(
                 Row(name, filename, type, NoPath, 0, NoPath), ok)
            /\ call' = CallReturned("create", nextID,
                                IF ok THEN "nil" ELSE "driver", TRUE)
    /\ UNCHANGED <<storages, mig>>
    /\ UNCHANGED <<localVars, thumbVars, lazyVars, uploadVars, s3Vars,
                   registryVars>>

\* Variant: Store.UpdateResource hands every update to the driver.
UpdateRejectedNever(update) == FALSE

\* The guard of Store.UpdateResource: a set name that does not match.
UpdateRejected(update) ==
    update.hasName /\ ~ResourceNameMatcher(update.resourceName)

\* What Store.UpdateResource does to the table and returns.
UpdateResourceCall(update, ok) ==
    IF UpdateRejected(update)
    THEN /\ call' = CallReturned("update", update.id, "invalid resource name", FALSE)
         /\ UNCHANGED <<rows, nextID>>
    ELSE /\ DriverUpdateResource(update, ok)
         /\ call' = CallReturned("update", update.id,
                             IF ok /\ update.id \in DOMAIN rows
                             THEN "nil" ELSE "driver", TRUE)

\* Store.UpdateResource called with a new name, a new filename or both, as
\* the rename handler and other callers do.
StoreUpdateResource(update, ok) ==
    /\ CallIdle
    /\ UpdateResourceCall(update, ok)
    /\ UNCHANGED <<storages, mig>>
    /\ UNCHANGED <<localVars, thumbVars, lazyVars, uploadVars, s3Vars,
                   registryVars>>

\* A nil pointer among the inputs of an update.
Unset == <<"nil">>

\* The updates callers make of an existing or a missing resource: neither,
\* either or both of the name and the filename are set.
Renames ==
    { Update(id, name # Unset, IF name = Unset THEN <<>> ELSE name,
             filename # Unset, IF filename = Unset THEN <<>> ELSE filename,
             FALSE, 0) :
        id \in ResourceIDs, name \in ResourceNames \cup { Unset },
        filename \in Filenames \cup { Unset } }

\* A thumbnail request of an image resource that ends with the thumbnail in
\* the cache: getOrGenerateThumbnailImage writes or finds the file named by
\* the ID and the extension of the filename the resource has at that time.
GenerateThumbnail(id) ==
    /\ id \in DOMAIN rows
    /\ IsThumbnailType(rows[id].type)
    /\ thumbFiles' =
         thumbFiles \cup
           { ThumbnailPath([id |-> id, ext |-> Ext(rows[id].filename)]) }
    /\ UNCHANGED <<availableGeneratorAmount, capacity, req>>
    /\ UNCHANGED <<localVars, lazyVars, uploadVars, s3Vars, registryVars,
                   storeVars>>

\* The file a relative InternalPath names: filepath.Join(Profile.Data, path).
ResourcePath(internalPath) ==
    JoinWith(<<RootDir>> \o Clean(internalPath), "/")

\* The thumbnail Store.DeleteResource removes.
DeletedThumbnail(id, resource) ==
    ThumbnailPath([id |-> id, ext |-> Ext(resource.filename)])

\* Variant: the metadata row is removed first, the files after it.
DeleteStepsRowFirst == <<"driver", "removeFile", "removeThumb">>

\* The statements of Store.DeleteResource after the lookup, in program order.
DeleteSteps == <<"removeFile", "removeThumb", "driver">>

\* Whether the statement runs for the resource found.
StepRuns(step, resource) ==
    CASE step = "removeFile"  -> resource.internalPath # NoPath
      [] step = "removeThumb" -> IsThumbnailType(resource.type)
      [] OTHER                -> TRUE

\* The first statement at or after position i that runs; past the end the
\* call returns.
RECURSIVE StepFrom(_, _)
StepFrom(i, resource) ==
    IF i > Len(DeleteSteps) THEN i
    ELSE IF StepRuns(DeleteSteps[i], resource) THEN i
    ELSE StepFrom(i + 1, resource)

StepName(i) == IF i > Len(DeleteSteps) THEN "done" ELSE DeleteSteps[i]

\* Store.DeleteResource, the lookup: GetResource fails, finds nothing (the
\* nil error is wrapped and returned), or finds the resource.
DeleteBegin(id, ok) ==
    /\ CallIdle
    /\ call' =
         IF ~ok THEN CallReturned("delete", id, Wrap("driver", "failed to get resource"), FALSE)
         ELSE IF id \notin DOMAIN rows
         THEN CallReturned("delete", id, Wrap("nil", "resource not found"), FALSE)
         ELSE LET first == StepFrom(1, rows[id])
              IN  [NoCall EXCEPT !.op = "delete", !.id = id,
                                 !.resource = rows[id], !.at = first,
                                 !.pc = StepName(first)]
    /\ UNCHANGED <<rows, nextID, storages, mig>>
    /\ UNCHANGED <<localVars, thumbVars, lazyVars, uploadVars, s3Vars,
                   registryVars>>

\* _ = os.Remove(resourcePath): the file is removed, or it is not and the
\* error is dropped.
RemoveInternalFile(ok) ==
    /\ call.pc = "removeFile"
    /\ files' = IF ok THEN Drop(files, ResourcePath(call.resource.internalPath))
                ELSE files
    /\ call' = [call EXCEPT !.tried = @ \cup { "removeFile" },
                            !.at = StepFrom(call.at + 1, call.resource),
                            !.pc = StepName(StepFrom(call.at + 1, call.resource))]
    /\ UNCHANGED <<clock, uuidSeq, local, stored, lastOp>>
    /\ UNCHANGED <<rows, nextID, storages, mig>>
    /\ UNCHANGED <<thumbVars, lazyVars, uploadVars, s3Vars, registryVars>>

\* _ = os.Remove(thumbnailPath), likewise.
RemoveThumbnail(ok) ==
    /\ call.pc = "removeThumb"
    /\ thumbFiles' =
         IF ok THEN thumbFiles \ { DeletedThumbnail(call.id, call.resource) }
         ELSE thumbFiles
    /\ call' = [call EXCEPT !.tried = @ \cup { "removeThumb" },
                            !.at = StepFrom(call.at + 1, call.resource),
                            !.pc = StepName(StepFrom(call.at + 1, call.resource))]
    /\ UNCHANGED <<availableGeneratorAmount, capacity, req>>
    /\ UNCHANGED <<rows, nextID, storages, mig>>
    /\ UNCHANGED <<localVars, lazyVars, uploadVars, s3Vars, registryVars>>

\* return s.driver.DeleteResource(ctx, delete).
DriverDeleteResource(ok) ==
    /\ call.pc = "driver"
    /\ rows' = IF ok THEN Drop(rows, call.id) ELSE rows
    /\ call' = [call EXCEPT !.tried = @ \cup { "driver" },
                            !.driverCalled = TRUE,
                            !.err = IF ok THEN "nil" ELSE "driver",
                            !.at = StepFrom(call.at + 1, call.resource),
                            !.pc = StepName(StepFrom(call.at + 1, call.resource))]
    /\ UNCHANGED <<nextID, storages, mig>>
    /\ UNCHANGED <<localVars, thumbVars, lazyVars, uploadVars, s3Vars,
                   registryVars>>

----------------------------------------------------------------------------
(* Storage dispatch: the provider a storage is served by *)

\* Display names of storages: the one the migration gives, and the type tags.
StorageNames == { "Local", LocalName, S3Name }

StorageTypes == { LocalName, S3Name }

\* A row of the storage table.
Storage(name, type, config) == [name |-> name, type |-> type, config |-> config]

\* Storage tables of one or two storages; the index is the storage ID.
StorageTables ==
    LET rowsOf == { Storage(name, type, config) :
                      name \in StorageNames, type \in StorageTypes,
                      config \in { "{}" } }
    IN  { <<a>> : a \in rowsOf } \cup { <<a, b>> : a \in rowsOf, b \in rowsOf }

\* The name SaveResourceBlob hands to resources.CreateProvider.
SaveProviderName(storage) == storage.name

\* The name GetResourceContent hands to resources.Content.
ContentProviderName(storage) == storage.type

\* The value of the workspace setting for the embedded database storage.
DatabaseStorage == 0

\* SaveResourceBlob with the active storage given by the workspace setting:
\* the bytes go into create.Blob for the database storage; otherwise the
\* provider of the storage is created and, when that succeeds, the bytes are
\* uploaded under a fresh key (ok says whether the upload succeeds; what an
\* upload writes is the subject of the provider specifications).
SaveResourceBlob(active, ok) ==
    /\ CallIdle
    /\ active \in { DatabaseStorage } \cup DOMAIN storages
    /\ IF active = DatabaseStorage
       THEN /\ call' = CallReturned("save", active, "nil", FALSE)
            /\ UNCHANGED lastCreate
       ELSE LET storage == storages[active]
                created == Created(SaveProviderName(storage), storage.config)
            IN  /\ lastCreate' = created
                /\ call' = CallReturned("save", active,
                             IF created.kind # "ok"
                             THEN Wrap(created.kind, "create storage")
                             ELSE IF ok THEN "nil"
                             ELSE Wrap("upload", "upload to"),
                             FALSE)
    /\ UNCHANGED <<providers, registered>>
    /\ UNCHANGED <<rows, nextID, storages, mig>>
    /\ UNCHANGED <<localVars, thumbVars, lazyVars, uploadVars, s3Vars>>

\* GetResourceContent of a resource whose StorageID is set, up to the
\* creation of the provider inside resources.Content.
ContentProvider(id) ==
    /\ CallIdle
    /\ id \in DOMAIN storages
    /\ LET storage == storages[id]
           created == Created(ContentProviderName(storage), storage.config)
       IN  /\ lastCreate' = created
           /\ call' = CallReturned("content", id,
                        IF created.kind # "ok"
                        THEN Wrap(created.kind, "create provider")
                        ELSE "nil",
                        FALSE)
    /\ UNCHANGED <<providers, registered>>
    /\ UNCHANGED <<rows, nextID, storages, mig>>
    /\ UNCHANGED <<localVars, thumbVars, lazyVars, uploadVars, s3Vars>>

\* The UploadResource handler with a storage of the S3 type active:
\* SaveResourceBlob creates the provider, uploads the bytes under a fresh key
\* and records the storage and the key; Store.CreateResource then persists
\* the resource. init and ok are the S3 client's initializer and the upload
\* succeeding, saved the driver's insert succeeding.
UploadResource(active, key, payload, filename, type, init, ok, saved) ==
    /\ CallIdle
    /\ nextID \in ResourceIDs
    /\ active \in DOMAIN storages
    /\ storages[active].type = S3Name
    /\ key \notin DOMAIN bucket
    /\ \A id \in DOMAIN rows : rows[id].externalLink # key
    /\ LET storage == storages[active]
           created == Created(SaveProviderName(storage), storage.config)
           uploaded == ClientReady(init) /\ ok
       IN  /\ lastCreate' = created
           /\ IF created.kind # "ok"
              THEN /\ call' = CallReturned("upload", 0,
                                Wrap(created.kind, "create storage"), FALSE)
                   /\ UNCHANGED <<rows, nextID, bucket, lastOp, lz>>
              ELSE /\ lz' = IF lz.ready \/ ~init THEN lz
                            ELSE [value |-> 1, ready |-> TRUE]
                   /\ lastOp' = Outcome(S3Name, "upload", key,
                                        IF uploaded THEN "ok" ELSE "error",
                                        NoContent)
                   /\ bucket' = IF uploaded THEN Put(bucket, key, payload)
                                ELSE bucket
                   /\ IF ~uploaded
                      THEN /\ call' = CallReturned("upload", 0,
                                        Wrap("upload", "upload to"), FALSE)
                           /\ UNCHANGED <<rows, nextID>>
                      ELSE /\ DriverCreateResource(
                                Row(<<"a">>, filename, type, NoPath, active,
                                    key), saved)
                           /\ call' = CallReturned("upload", nextID,
                                        IF saved THEN "nil" ELSE "driver",
                                        TRUE)
    /\ UNCHANGED <<providers, registered, storages, mig>>
    /\ UNCHANGED <<clock, uuidSeq, local, files, stored>>
    /\ UNCHANGED <<lock, caller, initRuns, initLog>>
    /\ UNCHANGED <<thumbVars, uploadVars>>

----------------------------------------------------------------------------
(* MigrateLocalResourcesToStorages *)

\* const pageSize of iterateResources.
pageSize == 32

\* The config the migration marshals for the storage it creates, and the
\* path setting it reads when the workspace has none.
MigrationPattern == <<"assets/", "{timestamp}", "_", "{filename}">>

MigrationConfig ==
    "{\"RootDir\":\"/data\",\"Pattern\":\"assets/{timestamp}_{filename}\",\"RawKey\":true}"

\* local.New of the config a local storage holds: the Local struct.
LocalOfConfig(config) ==
    IF config = MigrationConfig
    THEN [pattern |-> MigrationPattern, rawKey |-> TRUE]
    ELSE [pattern |-> <<>>, rawKey |-> FALSE]

NoMigration ==
    [pc |-> "idle", localStore |-> 0, offset |-> 0, page |-> <<>>, i |-> 0,
     visited |-> <<>>, err |-> "nil", before |-> NoRows]

\* The migration returns.
MigrationReturns(err) == mig' = [mig EXCEPT !.pc = "done", !.err = err]

\* The ID of the first storage of the local type, 0 (nil) when there is none.
FirstLocalStorage ==
    LET found == { id \in DOMAIN storages : storages[id].type = LocalName }
    IN  IF found = {} THEN 0
        ELSE CHOOSE id \in found : \A other \in found : id <= other

\* store.ListStorages and the search for a storage of the local type.
MigrateBegin(ok) ==
    /\ mig.pc = "idle"
    /\ IF ~ok THEN MigrationReturns(Wrap("driver", "list storages"))
       ELSE mig' = [mig EXCEPT !.localStore = FirstLocalStorage,
                               !.before = rows,
                               !.pc = IF FirstLocalStorage = 0
                                      THEN "createStorage" ELSE "list"]
    /\ UNCHANGED <<rows, nextID, storages, call>>
    /\ UNCHANGED <<localVars, thumbVars, lazyVars, uploadVars, s3Vars,
                   registryVars>>

\* No local storage yet: the path setting is read and the storage "Local" of
\* type local with RawKey set is created; either store call can fail.
CreateLocalStorage(ok) ==
    /\ mig.pc = "createStorage"
    /\ IF ~ok
       THEN /\ MigrationReturns(Wrap("driver", "create new local storage"))
            /\ UNCHANGED storages
       ELSE /\ storages' = Append(storages,
                                  Storage("Local", LocalName, MigrationConfig))
            /\ mig' = [mig EXCEPT !.localStore = Len(storages) + 1,
                                  !.pc = "list"]
    /\ UNCHANGED <<rows, nextID, call>>
    /\ UNCHANGED <<localVars, thumbVars, lazyVars, uploadVars, s3Vars,
                   registryVars>>

Min(a, b) == IF a < b THEN a ELSE b

\* The driver's ListResources with a limit and an offset: the rows in ID
\* order, the IDs being 1..n; each element is the resource as read.
ListResources(offset, limit) ==
    LET n == Cardinality(DOMAIN rows)
        count == IF offset >= n THEN 0 ELSE Min(limit, n - offset)
    IN  [k \in 1..count |-> [id |-> offset + k, resource |-> rows[offset + k]]]

\* Variant: the offset moves on by one resource per page.
NextOffsetByOne(offset, limit) == offset + 1

\* *query.Offset += limit
NextOffset(offset, limit) == offset + limit

\* iterateResources: one page is listed.
ListPage(ok) ==
    /\ mig.pc = "list"
    /\ IF ~ok THEN MigrationReturns(Wrap("driver", "list resources"))
       ELSE mig' = [mig EXCEPT !.page = ListResources(mig.offset, pageSize),
                               !.i = 1, !.pc = "handle"]
    /\ UNCHANGED <<rows, nextID, storages, call>>
    /\ UNCHANGED <<localVars, thumbVars, lazyVars, uploadVars, s3Vars,
                   registryVars>>

\* The handler of the migration: a resource with an InternalPath and no
\* StorageID is updated to reference the local storage.
NeedsMigration(resource) ==
    resource.internalPath # NoPath /\ resource.storageID = 0

\* iterateResources calls the handler for the next resource of the page.
HandleResource(ok) ==
    /\ mig.pc = "handle"
    /\ mig.i <= Len(mig.page)
    /\ LET res == mig.page[mig.i]
       IN  IF NeedsMigration(res.resource)
           THEN /\ UpdateResourceCall(
                     Update(res.id, FALSE, <<>>, FALSE, <<>>, TRUE,
                            mig.localStore), ok)
                /\ mig' = [mig EXCEPT
                             !.visited = Append(@, res.id),
                             !.i = @ + 1,
                             !.pc = IF ok THEN "handle" ELSE "done",
                             !.err = IF ok THEN "nil"
                                     ELSE Wrap("driver", "process resource")]
           ELSE /\ mig' = [mig EXCEPT !.visited = Append(@, res.id),
                                      !.i = @ + 1]
                /\ UNCHANGED <<rows, nextID, call>>
    /\ UNCHANGED storages
    /\ UNCHANGED <<localVars, thumbVars, lazyVars, uploadVars, s3Vars,
                   registryVars>>

\* The page is through: the offset moves on, and a short page ends the loop.
EndPage ==
    /\ mig.pc = "handle"
    /\ mig.i > Len(mig.page)
    /\ mig' = [mig EXCEPT !.offset = NextOffset(@, pageSize),
                          !.pc = IF Len(mig.page) < pageSize
                                 THEN "done" ELSE "list"]
    /\ UNCHANGED <<rows, nextID, storages, call>>
    /\ UNCHANGED <<localVars, thumbVars, lazyVars, uploadVars, s3Vars,
                   registryVars>>

\* GetResourceContent of a resource of the table whose bytes are behind a
\* storage of the local type (registered) or in a legacy file: the provider
\* made of the storage's config downloads the key ExternalLink, or the file
\* at InternalPath is opened; ioErr is a failure of the filesystem.
ReadResource(id, ioErr) ==
    /\ CallIdle
    /\ mig.pc \in { "idle", "done" }
    /\ id \in DOMAIN rows
    /\ LET resource == rows[id]
           storage == storages[resource.storageID]
           out ==
             IF resource.storageID # 0
             THEN OpenResult(resource.externalLink,
                             DownloadPathOf(LocalOfConfig(storage.config),
                                            resource.externalLink, clock,
                                            NextUuid),
                             ioErr)
             ELSE OpenResult(resource.internalPath,
                             ResourcePath(resource.internalPath), ioErr)
       IN  /\ resource.storageID # 0 =>
                /\ storage.type = LocalName
                /\ LocalOfConfig(storage.config).rawKey
           /\ resource.storageID = 0 => resource.internalPath # NoPath
           /\ call' = [CallReturned("read", id,
                                    IF out.kind = "ok" THEN "nil" ELSE out.kind,
                                    FALSE)
                         EXCEPT !.resource = resource, !.content = out.content]
    /\ UNCHANGED <<rows, nextID, storages, mig>>
    /\ UNCHANGED <<localVars, thumbVars, lazyVars, uploadVars, s3Vars,
                   registryVars>>

----------------------------------------------------------------------------
(* Specifications *)

InitLocalVars ==
    /\ clock = 0
    /\ uuidSeq = 0
    /\ local \in [pattern : Patterns, rawKey : BOOLEAN]
    /\ files = EmptyMap
    /\ stored = EmptyMap
    /\ lastOp = NoOp

IdleLocalVars ==
    /\ clock = 0
    /\ uuidSeq = 0
    /\ local = [pattern |-> <<>>, rawKey |-> FALSE]
    /\ files = EmptyMap
    /\ stored = EmptyMap
    /\ lastOp = NoOp

\* The cache directory may hold thumbnails of earlier runs.
InitThumbVars ==
    /\ capacity = MaxCapacity
    /\ availableGeneratorAmount = capacity
    /\ thumbFiles \in SUBSET ThumbnailPaths
    /\ req = [r \in Requests |-> IdleRequest]

IdleThumbVars ==
    /\ capacity = MaxCapacity
    /\ availableGeneratorAmount = capacity
    /\ thumbFiles = {}
    /\ req = [r \in Requests |-> IdleRequest]

\* A fresh cache directory.
InitEmptyCache ==
    /\ capacity = MaxCapacity
    /\ availableGeneratorAmount = capacity
    /\ thumbFiles = {}
    /\ req = [r \in Requests |-> IdleRequest]

InitLazyVars ==
    /\ lz = [value |-> ZeroValue, ready |-> FALSE]
    /\ lock = [readers |-> {}, writer |-> NoWriter]
    /\ caller = [c \in GetCallers |-> IdleCaller]
    /\ initRuns = 0
    /\ initLog = <<>>

IdleUploadVars == up = IdleUpload

IdleS3Vars == bucket = EmptyMap

IdleRegistryVars ==
    /\ providers = NoProviders
    /\ registered = {}
    /\ lastCreate = NoCreate

\* An empty resource table, no storage, no call in progress.
IdleStoreVars ==
    /\ rows = NoRows
    /\ nextID = 1
    /\ storages = <<>>
    /\ call = NoCall
    /\ mig = NoMigration

\* The subsystems a specification does not exercise, at rest.
IdleProviderVars ==
    IdleUploadVars /\ IdleS3Vars /\ IdleRegistryVars /\ IdleStoreVars

\* The Local provider: uploads, downloads and deletes as time passes.
InitLocal == InitLocalVars /\ IdleThumbVars /\ InitLazyVars /\ IdleProviderVars

\* A storage and the provider created for it, Local or S3, called through the
\* ResourceProvider interface one call at a time as time passes.
InitProviders == InitLocalVars /\ IdleThumbVars /\ InitLazyVars /\ IdleProviderVars

NextProviders ==
    \/ \E provider \in ProviderNames :
         \E key \in Keys, payload \in Payloads, env \in Environments(provider) :
           ProviderUpload(provider, key, payload, env.init, env.err # "fault")
    \/ \E provider \in ProviderNames :
         \E key \in Keys, env \in Environments(provider) :
           ProviderDownload(provider, key, env.init, env.err)
    \/ \E provider \in ProviderNames :
         \E key \in Keys, env \in Environments(provider) :
           ProviderDelete(provider, key, env.init, env.err)
    \/ Tick

SpecProviders == InitProviders /\ [][NextProviders]_vars

\* One call of Upload taken statement by statement, with a crash at any point
\* and concurrent downloads of the destination. The filesystem it finds is
\* empty or has the file an earlier Upload wrote for a key, and may have the
\* temporary file an earlier call left behind when it crashed.
InitUpload ==
    /\ clock = 0
    /\ uuidSeq = 0
    /\ local \in [pattern : Patterns, rawKey : BOOLEAN]
    /\ lastOp = NoOp
    /\ \E key \in Keys, content \in Payloads, had \in BOOLEAN, orphan \in BOOLEAN :
         LET resourcePath == getPath(local.pattern, key, clock, uuidSeq)
             earlier == IF had THEN Put(EmptyMap, resourcePath, content)
                        ELSE EmptyMap
         IN  /\ files = IF orphan
                        THEN Put(earlier, TempName(resourcePath, 1), "p")
                        ELSE earlier
             /\ stored = IF had THEN Put(EmptyMap, key, content) ELSE EmptyMap
    /\ IdleThumbVars /\ InitLazyVars /\ IdleProviderVars

NextUpload ==
    \/ \E key \in Keys, payload \in PayloadChunks : UploadBegin(key, payload)
    \/ \E ok \in BOOLEAN : MkdirAll(ok)
    \/ \E n \in TempSuffixes, ok \in BOOLEAN : CreateTemp(n, ok)
    \/ \E ok \in BOOLEAN : CopyChunk(ok)
    \/ \E ok \in BOOLEAN : CloseTemp(ok)
    \/ \E ok \in BOOLEAN : Rename(ok)
    \/ DeferredClose
    \/ DeferredRemove
    \/ Crash
    \/ \E ioErr \in BOOLEAN : DownloadDuringUpload(ioErr)

SpecUpload == InitUpload /\ [][NextUpload]_vars

NextLocal ==
    \/ \E key \in Keys, payload \in Payloads, ok \in BOOLEAN :
         LocalUpload(key, payload, ok)
    \/ \E key \in Keys, ioErr \in BOOLEAN : LocalDownload(key, ioErr)
    \/ \E key \in Keys, ioErr \in BOOLEAN : LocalDelete(key, ioErr)
    \/ Tick

SpecLocal == InitLocal /\ [][NextLocal]_vars

\* The delivery handler, one request of any kind.
InitDelivery == IdleLocalVars /\ InitThumbVars /\ InitLazyVars /\ IdleProviderVars

NextDelivery == \E r \in {1} : BeginRequest(r) \/ HandlerStep(r)

SpecDelivery == InitDelivery /\ [][NextDelivery]_vars

\* One request of an anonymous caller on a resource of any payload location.
InitContent == IdleLocalVars /\ InitEmptyCache /\ InitLazyVars /\ IdleProviderVars

NextContent == \E r \in {1} : BeginContentRequest(r) \/ HandlerStep(r)

SpecContent == InitContent /\ [][NextContent]_vars

\* Concurrent thumbnail requests on image resources, from an empty cache.
InitThumb == IdleLocalVars /\ InitEmptyCache /\ InitLazyVars /\ IdleProviderVars

NextThumb == \E r \in Requests : BeginThumbnailRequest(r) \/ HandlerStep(r)

SpecThumb == InitThumb /\ [][NextThumb]_vars

\* The provider registry: registrations and lookups in any order.
InitRegistry ==
    /\ IdleLocalVars /\ IdleThumbVars /\ InitLazyVars
    /\ IdleUploadVars /\ IdleS3Vars /\ IdleRegistryVars /\ IdleStoreVars

NextRegistry ==
    \/ \E name \in RegistryNames, factory \in Factories :
         RegisterProvider(name, factory)
    \/ \E name \in RegistryNames, bytes \in Configs : CreateProvider(name, bytes)

SpecRegistry == InitRegistry /\ [][NextRegistry]_vars

\* Concurrent callers of one lazyInit.
InitLazy == IdleLocalVars /\ IdleThumbVars /\ InitLazyVars /\ IdleProviderVars

NextLazy == \E c \in GetCallers : GetStep(c)

SpecLazy == InitLazy /\ [][NextLazy]_vars

\* The resource table under creates, renames, thumbnail requests and
\* deletes; the table may start with a legacy resource whose bytes are a
\* file under the data directory.
LegacyRows ==
    { Put(NoRows, 1, Row(<<"a">>, filename, type, LegacyPath, 0, NoPath)) :
        filename \in Filenames, type \in StoreTypes }

InitStore ==
    /\ clock = 0
    /\ uuidSeq = 0
    /\ local = [pattern |-> <<>>, rawKey |-> FALSE]
    /\ stored = EmptyMap
    /\ lastOp = NoOp
    /\ rows \in { NoRows } \cup LegacyRows
    /\ nextID = Cardinality(DOMAIN rows) + 1
    /\ files \in { EmptyMap } \cup
                 { Put(EmptyMap, ResourcePath(LegacyPath), payload) :
                     payload \in { p \in Payloads : rows # NoRows } }
    /\ storages = <<>>
    /\ call = NoCall
    /\ mig = NoMigration
    /\ IdleThumbVars /\ InitLazyVars
    /\ IdleUploadVars /\ IdleS3Vars /\ IdleRegistryVars

NextStore ==
    \/ \E name \in ResourceNames, filename \in Filenames, type \in StoreTypes,
          ok \in BOOLEAN :
         StoreCreateResource(name, filename, type, ok)
    \/ \E update \in Renames, ok \in BOOLEAN : StoreUpdateResource(update, ok)
    \/ \E id \in ResourceIDs : GenerateThumbnail(id)
    \/ \E id \in ResourceIDs, ok \in BOOLEAN : DeleteBegin(id, ok)
    \/ \E ok \in BOOLEAN : RemoveInternalFile(ok)
    \/ \E ok \in BOOLEAN : RemoveThumbnail(ok)
    \/ \E ok \in BOOLEAN : DriverDeleteResource(ok)

SpecStore == InitStore /\ [][NextStore]_vars

\* Saves and reads dispatched through the registry: the providers are
\* registered under their type tags when the process starts, the storage
\* table holds one or two storages.
InitDispatch ==
    /\ IdleLocalVars /\ IdleThumbVars /\ InitLazyVars
    /\ IdleUploadVars /\ IdleS3Vars
    /\ registered \in SUBSET StorageTypes
    /\ providers = [name \in registered |-> IF name = LocalName THEN "f1" ELSE "f2"]
    /\ lastCreate = NoCreate
    /\ rows = NoRows
    /\ nextID = 1
    /\ storages \in StorageTables
    /\ call = NoCall
    /\ mig = NoMigration

NextDispatch ==
    \/ \E active \in 0..2, ok \in BOOLEAN : SaveResourceBlob(active, ok)
    \/ \E id \in 1..2 : ContentProvider(id)

SpecDispatch == InitDispatch /\ [][NextDispatch]_vars

\* The resource table the migration finds: legacy resources (a path, no
\* storage), resources of the storage 1, resources with a path and a storage,
\* and resources with neither, in a repeating order.
RowKinds == <<"legacy", "stored", "placed", "embedded">>

RowOfKind(kind) ==
    CASE kind = "legacy"   -> Row(<<"a">>, <<"a", "png">>, "image/png",
                                  LegacyPath, 0, NoPath)
      [] kind = "stored"   -> Row(<<"a">>, <<"a", "png">>, "image/png",
                                  NoPath, 1, <<"ab", "k1">>)
      [] kind = "placed"   -> Row(<<"a">>, <<"a", "png">>, "image/png",
                                  LegacyPath, 1, NoPath)
      [] OTHER             -> Row(<<"a">>, <<"a", "png">>, "image/png",
                                  NoPath, 0, NoPath)

\* The storage tables the migration finds: none, one without the local
\* type, one with a storage of the local type in second place.
MigrationStorageTables ==
    { <<>>,
      <<Storage(S3Name, S3Name, "{}")>>,
      <<Storage(S3Name, S3Name, "{}"), Storage(LocalName, LocalName, "{}")>> }

\* n resources with the IDs 1..n; without a storage every resource is a
\* legacy one or has neither path nor storage.
TableOf(n, shift, table) ==
    [id \in 1..n |->
       LET kind == RowKinds[((id + shift) % Len(RowKinds)) + 1]
       IN  RowOfKind(IF table = <<>> /\ kind \in { "stored", "placed" }
                     THEN "legacy" ELSE kind)]

InitMigration ==
    /\ IdleLocalVars /\ IdleThumbVars /\ InitLazyVars
    /\ IdleUploadVars /\ IdleS3Vars /\ IdleRegistryVars
    /\ storages \in MigrationStorageTables
    /\ \E n \in 0..MaxRows, shift \in 0..1 :
         /\ rows = TableOf(n, shift, storages)
         /\ nextID = n + 1
    /\ call = NoCall
    /\ mig = NoMigration

NextMigration ==
    \/ \E ok \in BOOLEAN : MigrateBegin(ok)
    \/ \E ok \in BOOLEAN : CreateLocalStorage(ok)
    \/ \E ok \in BOOLEAN : ListPage(ok)
    \/ \E ok \in BOOLEAN : HandleResource(ok)
    \/ EndPage

SpecMigration == InitMigration /\ [][NextMigration]_vars

\* The migration runs to its end: it is one goroutine that is not blocked.
FairMigration == SpecMigration /\ WF_vars(NextMigration)

\* Reads of legacy resources before and after the migration: a table of
\* one or two resources, the legacy file on disk or missing, no storage of
\* the local type before the migration.
InitMigratedRead ==
    /\ clock = 0
    /\ uuidSeq = 0
    /\ local = [pattern |-> <<>>, rawKey |-> FALSE]
    /\ stored = EmptyMap
    /\ lastOp = NoOp
    /\ files \in { EmptyMap } \cup
                 { Put(EmptyMap, ResourcePath(LegacyPath), payload) :
                     payload \in Payloads }
    /\ IdleThumbVars /\ InitLazyVars
    /\ IdleUploadVars /\ IdleS3Vars /\ IdleRegistryVars
    /\ storages \in { table \in MigrationStorageTables :
                        \A id \in DOMAIN table : table[id].type # LocalName }
    /\ \E n \in 1..2, shift \in 0..1 :
         /\ rows = TableOf(n, shift, storages)
         /\ nextID = n + 1
    /\ call = NoCall
    /\ mig = NoMigration

NextMigratedRead ==
    \/ \E ok \in BOOLEAN : MigrateBegin(ok)
    \/ \E ok \in BOOLEAN : CreateLocalStorage(ok)
    \/ \E ok \in BOOLEAN : ListPage(ok)
    \/ \E ok \in BOOLEAN : HandleResource(ok)
    \/ EndPage
    \/ \E id \in 1..2, ioErr \in BOOLEAN : ReadResource(id, ioErr)

SpecMigratedRead == InitMigratedRead /\ [][NextMigratedRead]_vars

\* Resources uploaded through the S3 provider, deleted, and their keys
\* downloaded: the provider is registered under its type tag and one storage
\* of that type, named by the tag, is active.
InitOrphan ==
    /\ IdleLocalVars /\ IdleThumbVars /\ InitLazyVars
    /\ IdleUploadVars /\ IdleS3Vars
    /\ registered = { S3Name }
    /\ providers = [name \in registered |-> "f2"]
    /\ lastCreate = NoCreate
    /\ rows = NoRows
    /\ nextID = 1
    /\ storages = <<Storage(S3Name, S3Name, "{}")>>
    /\ call = NoCall
    /\ mig = NoMigration

NextOrphan ==
    \/ \E key \in Keys, payload \in Payloads, filename \in Filenames,
          type \in StoreTypes, init \in BOOLEAN, ok \in BOOLEAN,
          saved \in BOOLEAN :
         UploadResource(1, key, payload, filename, type, init, ok, saved)
    \/ \E id \in ResourceIDs, ok \in BOOLEAN : DeleteBegin(id, ok)
    \/ \E ok \in BOOLEAN : RemoveThumbnail(ok)
    \/ \E ok \in BOOLEAN : DriverDeleteResource(ok)
    \/ \E key \in Keys, env \in Environments(S3Name) :
         ProviderDownload(S3Name, key, env.init, env.err)

SpecOrphan == InitOrphan /\ [][NextOrphan]_vars

----------------------------------------------------------------------------
(* Claims about the Local provider, checked under SpecLocal *)

\* C1: round-trip law. After a successful Upload(key, bytes) with no Delete
\* of the key since, a Download(key) at any later time that the filesystem
\* does not fail returns exactly bytes (Local provider, non-raw mode).
RoundTripLaw ==
    ( /\ lastOp.op = "download"
      /\ ~local.rawKey
      /\ lastOp.key \in DOMAIN stored
      /\ lastOp.kind # "error" )
    => ( /\ lastOp.kind = "ok"
         /\ lastOp.content = stored[lastOp.key] )

----------------------------------------------------------------------------
(* Claims about the thumbnail budget, checked under SpecThumb *)

Generating == { r \in Requests : req[r].held }

Done(r) == req[r].pc = "done"

\* C2: the number of generations between taking and releasing a unit never
\* exceeds the configured capacity, and the counter never drops below 0.
BudgetNeverExceeded ==
    /\ Cardinality(Generating) <= capacity
    /\ availableGeneratorAmount >= 0

\* A request that asked for a thumbnail not yet cached, met no I/O error, and
\* made its budget check before any other request had left the thumbnail call.
FirstTimeAtGate(r) ==
    /\ Done(r)
    /\ req[r].in.thumbnail
    /\ ~req[r].hit
    /\ ~req[r].lateLoad
    /\ req[r].thumbErr \in { "", "capacity" }
    /\ req[r].status = 200

\* C3: with capacity 1, two concurrent first-time thumbnail requests for
\* two different images end with exactly one generated thumbnail and one
\* fallback to the original content, and the budget is back at 1.
ExactlyOneGenerates ==
    \A r1, r2 \in Requests :
        ( /\ r1 # r2
          /\ capacity = 1
          /\ req[r1].in.id # req[r2].in.id
          /\ FirstTimeAtGate(r1)
          /\ FirstTimeAtGate(r2) )
        => /\ req[r1].generated # req[r2].generated
           /\ \E r \in {r1, r2} : req[r].thumbErr = "capacity" /\ req[r].body = "original"
           /\ availableGeneratorAmount = 1

\* C4: budget release. The counter is the capacity less the units of the
\* generations in progress; a call that has returned holds no unit, a cache
\* hit and a rejected call never took one; so with every call returned the
\* counter is the capacity again.
BudgetReleased ==
    /\ availableGeneratorAmount = capacity - Cardinality(Generating)
    /\ \A r \in Requests :
          req[r].pc \in AfterThumbnailCall =>
             /\ ~req[r].held
             /\ (req[r].hit \/ req[r].thumbErr \in { "capacity", "stat" }) => ~req[r].tookUnit
    /\ (\A r \in Requests : req[r].pc \notin InThumbnailCall)
          => availableGeneratorAmount = capacity

\* Witness of C4: every request is done, one after a failed decode under a
\* unit it had taken, one rejected for capacity.
BudgetReleasedWitness ==
    /\ \A r \in Requests : Done(r)
    /\ \E r \in Requests : req[r].tookUnit /\ req[r].thumbErr = "decode"
    /\ \E r \in Requests : req[r].thumbErr = "capacity"

\* C5 as claimed: whenever the thumbnail lookup or generation fails, the
\* request is answered 200 with the original content.
ThumbnailFailureAlwaysServed ==
    \A r \in Requests :
        (Done(r) /\ req[r].thumbErr # "")
        => (req[r].status = 200 /\ req[r].body = "original")

\* C5 amended: after a thumbnail failure the content is resolved a second
\* time; the request is answered 200 with the original content if that
\* succeeds and 500 only if that second resolution fails. The thumbnail
\* error itself never is the answer.
ThumbnailFailureFallsBack ==
    \A r \in Requests :
        (Done(r) /\ req[r].thumbErr # "")
        => /\ req[r].contentCalls = 2
           /\ req[r].reopen = "ok" => (req[r].status = 200 /\ req[r].body = "original")
           /\ req[r].reopen # "ok" => (req[r].reopen = "err" /\ req[r].status = 500)

\* Witness of C5: a request rejected for capacity and one with a failed
\* decode, both answered 200 with the original content.
ThumbnailFailureWitness ==
    /\ \E r \in Requests :
          Done(r) /\ req[r].thumbErr = "capacity" /\ req[r].status = 200
                  /\ req[r].body = "original"
    /\ \E r \in Requests :
          Done(r) /\ req[r].thumbErr = "decode" /\ req[r].status = 200
                  /\ req[r].body = "original"

----------------------------------------------------------------------------
(* Claims about the visibility check, checked under SpecDelivery *)

IsCreator(r) == req[r].in.caller.ok /\ req[r].in.caller.id = req[r].in.creator

\* C6: when the parent memo is private, content is served only to the
\* creator of the resource; any other caller, anonymous included, is
\* answered unauthorized and gets no content.
PrivateOnlyCreator ==
    \A r \in Requests :
        /\ (req[r].in.memo = "PRIVATE" /\ req[r].body # "none") => IsCreator(r)
        /\ (Done(r) /\ req[r].memoSeen = "PRIVATE" /\ ~IsCreator(r))
              => (req[r].status = 401 /\ req[r].body = "none")

\* Witness of C6: an identified caller who is not the creator is rejected.
PrivateOnlyCreatorWitness ==
    \E r \in Requests :
        /\ Done(r)
        /\ req[r].memoSeen = "PRIVATE"
        /\ req[r].in.caller.ok
        /\ ~IsCreator(r)
        /\ req[r].status = 401

\* C7: when the parent memo is public, no caller is answered unauthorized.
PublicNeverUnauthorized ==
    \A r \in Requests : req[r].in.memo = "PUBLIC" => req[r].status # 401

\* Witness of C7: an anonymous caller is served the resource of a public memo.
PublicNeverUnauthorizedWitness ==
    \E r \in Requests :
        /\ Done(r)
        /\ req[r].memoSeen = "PUBLIC"
        /\ ~req[r].in.caller.ok
        /\ req[r].status = 200

\* C8: the visibility check precedes content resolution. A request answered
\* unauthorized never called GetResourceContent, never looked up, opened or
\* generated a thumbnail and never took a budget unit.
UnauthorizedTouchesNothing ==
    \A r \in Requests :
        req[r].status = 401
        => /\ req[r].contentCalls = 0
           /\ ~req[r].tookUnit
           /\ ~req[r].generated
           /\ ~req[r].hit
           /\ req[r].body = "none"
           /\ availableGeneratorAmount = capacity

\* Witness of C8: a thumbnail request on an image of a private memo by an
\* anonymous caller is answered unauthorized.
UnauthorizedTouchesNothingWitness ==
    \E r \in Requests :
        /\ Done(r)
        /\ req[r].status = 401
        /\ req[r].in.thumbnail
        /\ IsThumbnailType(req[r].in.type)

----------------------------------------------------------------------------
(* Claims about lazyInit, checked under SpecLazy *)

Initializing == { c \in GetCallers : caller[c].pc = "init" }

Succeeded == { i \in 1..Len(initLog) : initLog[i].ok }

Returned(c) == caller[c].pc = "returned"

\* C9: at most one execution of the initializer is in progress; at most
\* one execution ever succeeds and none is started after it; every Get
\* that returns without error returns the value of that execution.
InitializedOnce ==
    /\ Cardinality(Initializing) <= 1
    /\ Cardinality(Succeeded) <= 1
    /\ lz.ready =>
          /\ Initializing = {}
          /\ Succeeded = { Len(initLog) }
          /\ initLog[Len(initLog)].id = initRuns
          /\ lz.value = initRuns
    /\ \A c \in GetCallers :
          (Returned(c) /\ ~caller[c].result.err)
          => /\ Succeeded # {}
             /\ \A i \in Succeeded : caller[c].result.value = initLog[i].id

\* Witness of C9: an execution has failed, a later one has succeeded, and
\* two callers have returned its value, one of them without running it.
InitializedOnceWitness ==
    /\ Len(initLog) >= 2
    /\ lz.ready
    /\ \A c \in GetCallers : Returned(c) /\ ~caller[c].result.err
    /\ \E c \in GetCallers : caller[c].exec = 0

\* C10: a failure is not cached. A Get returns an error only for an
\* execution of the initializer of its own that failed, and then returns the
\* unchanged value; while no execution has succeeded the instance is not
\* ready and its value is the zero value; ready is set exactly by a success.
FailureNotCached ==
    /\ \A c \in GetCallers :
          (caller[c].pc \in { "unlock", "returned" } /\ caller[c].result.err)
          => /\ caller[c].exec # 0
             /\ \E i \in 1..Len(initLog) :
                   initLog[i] = [id |-> caller[c].exec, ok |-> FALSE]
             /\ caller[c].result.value = ZeroValue
    /\ lz.ready = (Succeeded # {})
    /\ ~lz.ready => lz.value = ZeroValue

\* Witness of C10: one caller has returned the error of its failed execution
\* and another caller, with a later execution of its own, has succeeded.
FailureNotCachedWitness ==
    \E c1, c2 \in GetCallers :
        /\ Returned(c1) /\ caller[c1].result.err
        /\ Returned(c2) /\ ~caller[c2].result.err
        /\ caller[c2].exec > caller[c1].exec
        /\ lz.ready

----------------------------------------------------------------------------
(* Claims about Local.Upload, checked under SpecUpload *)

\* The paths getPath can give a key under the configured pattern.
Destinations ==
    { getPath(local.pattern, key, t, uuid) :
        key \in Keys, t \in 0..MaxClock, uuid \in 0..(MaxUuid + 1) }

TempNames == { TempName(d, n) : d \in Destinations, n \in TempSuffixes }

\* C11: write atomicity of Local.Upload. At every point of an Upload, a crash
\* between any two statements and a concurrent Download of the same path
\* included, the file at the destination is absent, or has the complete
\* previous content, or the complete new payload; a partly written payload
\* is only ever in a file under a temporary name in the destination's
\* directory, and a concurrent Download never returns one.
WriteAtomicity ==
    /\ up.pc # "idle" =>
          ContentAt(up.resourcePath) \in
              {NoContent, up.prev, Concat(up.payload)}
    /\ \A p \in DOMAIN files :
          files[p] \notin Payloads => p \in TempNames \ Destinations
    /\ (up.observed /\ lastOp.kind = "ok") =>
          lastOp.content \in {up.prev, Concat(up.payload)}

\* An Upload over an existing file crashed in the middle of the copy: the
\* partial payload is in the temporary file, the destination still has the
\* previous content and a concurrent Download returned it.
WriteAtomicityWitness ==
    /\ up.pc = "crashed"
    /\ up.tempName \in DOMAIN files
    /\ files[up.tempName] = "p"
    /\ up.prev \in Payloads
    /\ up.prev # Concat(up.payload)
    /\ ContentAt(up.resourcePath) = up.prev
    /\ up.observed
    /\ lastOp.kind = "ok"
    /\ lastOp.content = up.prev

----------------------------------------------------------------------------
(* Claims about the provider contract, checked under SpecProviders *)

\* The call before this one was a Delete of the key by the provider that
\* returned no error.
JustDeleted(provider, key) ==
    /\ lastOp.provider = provider
    /\ lastOp.op = "delete"
    /\ lastOp.key = key
    /\ lastOp.kind = "ok"

\* The step is a call of the provider with the operation on the key.
Calls(provider, op, key) ==
    /\ lastOp'.provider = provider
    /\ lastOp'.op = op
    /\ lastOp'.key = key

----------------------------------------------------------------------------
(* Claims about raw-key mode, checked under SpecLocal *)

\* The key taken as a filesystem path: joined under the root directory when
\* it is relative, as every key of Keys is.
RawPath(key) == JoinWith(<<RootDir>> \o Clean(key), "/")

\* C15: with RawKey set, Download(key) opens the file at the key taken as a
\* filesystem path, without formatting, and returns the content of that file
\* whenever the file exists (and the filesystem does not fail).
RawKeyOpensKey ==
    ( /\ lastOp.provider = LocalName
      /\ lastOp.op = "download"
      /\ local.rawKey
      /\ RawPath(lastOp.key) \in DOMAIN files
      /\ lastOp.kind # "error" )
    => ( /\ lastOp.kind = "ok"
         /\ lastOp.content = files[RawPath(lastOp.key)] )

----------------------------------------------------------------------------
(* Claims about content resolution and serving, checked under SpecContent *)

\* The sources in the order of the resolution, and when each applies.
SourceOrder == << "provider", "blob", "file", "link" >>

Applies(in, source) ==
    CASE source = "provider" -> in.storageID
      [] source = "blob"     -> in.blob
      [] source = "file"     -> in.internalPath
      [] source = "link"     -> in.externalLink

\* The position of the first source of the order that applies, 0 for none.
FirstApplicable(in) ==
    IF \E i \in 1..Len(SourceOrder) : Applies(in, SourceOrder[i])
    THEN CHOOSE i \in 1..Len(SourceOrder) :
           /\ Applies(in, SourceOrder[i])
           /\ \A j \in 1..(i - 1) : ~Applies(in, SourceOrder[j])
    ELSE 0

\* C16: resolution precedence. For every combination of set and unset
\* StorageID, Blob, InternalPath and ExternalLink, GetResourceContent uses
\* exactly the first applicable source in the order provider reference,
\* embedded bytes, legacy local path, legacy external URL; its result is the
\* result of that source, also when that source fails; and when no source
\* applies it returns a not-found error.
ResolutionPrecedence ==
    \A r \in Requests :
        req[r].contentCalls > 0 =>
            LET i == FirstApplicable(req[r].in) IN
            IF i = 0
            THEN req[r].source = "none" /\ req[r].kind = "notfound"
            ELSE req[r].source = SourceOrder[i]

\* A resource with every payload-location field set, whose provider failed:
\* the request ended with the error of the provider.
ResolutionPrecedenceWitness ==
    \E r \in Requests :
        /\ req[r].pc = "done"
        /\ req[r].in.storageID
        /\ req[r].in.blob
        /\ req[r].in.internalPath
        /\ req[r].in.externalLink
        /\ req[r].source = "provider"
        /\ req[r].kind = "error"
        /\ req[r].contentCalls = 1

\* C17: when the bytes of an existing resource the caller may read are absent
\* (the provider reports not-found, the file is missing, or no payload
\* location applies), the request is answered with status 404.
AbsentBytesAnswered404 ==
    \A r \in Requests :
        ( /\ req[r].pc = "done"
          /\ req[r].contentCalls > 0
          /\ req[r].kind = "notfound" )
        => req[r].status = 404

\* C18: every successful delivery of a resource whose declared type starts
\* with "text", in any case, has the UTF-8 plain-text content type, on the
\* http.ServeContent branch and on the c.Stream branch.
TextServedAsPlainText ==
    \A r \in Requests :
        ( /\ req[r].pc = "done"
          /\ req[r].status = 200
          /\ HasPrefixText(ToLower(req[r].in.type)) )
        => req[r].contentType = MIMETextPlainCharsetUTF8

----------------------------------------------------------------------------
(* Claim about the cache hit, checked under SpecThumb *)

\* C19: a cache hit is budget-free. When os.Stat finds the thumbnail file,
\* getOrGenerateThumbnailImage opens and returns it without reading,
\* decrementing or incrementing the budget counter and without decoding the
\* source, whatever the value of the counter.
CacheHitBudgetFree ==
    \A r \in Requests :
        req[r].hit =>
            /\ ~req[r].loaded
            /\ ~req[r].tookUnit
            /\ ~req[r].held
            /\ ~req[r].generated
            /\ req[r].pc \in {"open"} \cup AfterThumbnailCall
            /\ req[r].thumbErr \in {"", "open"}
            /\ (req[r].pc \in AfterThumbnailCall /\ req[r].thumbErr = "")
                   => req[r].body = "thumbnail"

\* A request found the file and was served the thumbnail while another
\* request held the only unit of the budget.
CacheHitBudgetFreeWitness ==
    \E r \in Requests, o \in Requests :
        /\ o # r
        /\ req[r].hit
        /\ req[r].pc = "done"
        /\ req[r].status = 200
        /\ req[r].body = "thumbnail"
        /\ req[o].held
        /\ availableGeneratorAmount = 0

----------------------------------------------------------------------------
(* Claim about the provider registry, checked under SpecRegistry *)

\* C20: CreateProvider(name, config) returns ErrProviderUnknown exactly when
\* no RegisterProvider call for the name happened before it; for a registered
\* name it calls the factory registered for the name with the decoded config,
\* and a config that does not decode gives an error that is not
\* ErrProviderUnknown.
RegistryLookup ==
    [][ \A name \in RegistryNames, bytes \in Configs :
          CreateProvider(name, bytes) =>
            /\ lastCreate'.kind = "unknown" <=> name \notin registered
            /\ name \in registered =>
                  IF Decodes(bytes)
                  THEN /\ lastCreate'.kind = "ok"
                       /\ lastCreate'.factory = providers[name]
                       /\ lastCreate'.config = Unmarshal(bytes)
                  ELSE lastCreate'.kind = "decode"
      ]_vars

\* A registered provider was asked for with a config that is no JSON, while
\* another name is still unregistered.
RegistryLookupWitness ==
    /\ lastCreate.kind = "decode"
    /\ lastCreate.name \in registered
    /\ registered # RegistryNames

----------------------------------------------------------------------------
(* Claims about the metadata store, checked under SpecStore *)

\* C21: Store.CreateResource and Store.UpdateResource reject a name that does
\* not match the pattern before the driver is called: every persisted
\* resource name matches the pattern, and a call rejected for its name has
\* not reached the driver and leaves the resource table unchanged.
NameValidation ==
    /\ [](\A id \in DOMAIN rows : ResourceNameMatcher(rows[id].resourceName))
    /\ [][ call'.err = "invalid resource name"
            => (rows' = rows /\ ~call'.driverCalled) ]_vars

NameValidationWitness ==
    /\ call.op = "update"
    /\ call.err = "invalid resource name"
    /\ call.id \in DOMAIN rows
    /\ nextID > 2

\* C22: in Store.DeleteResource for an existing resource the removal of the
\* legacy file (when InternalPath is set) and of the cached thumbnail (for
\* image types) are both attempted before the driver removes the row: while
\* either removal is still to come the row is in the table, and once the
\* driver has been called every removal that applies has been attempted.
DeleteOrdering ==
    call.op = "delete" =>
      /\ call.pc \in { "removeFile", "removeThumb" } =>
            (call.id \in DOMAIN rows /\ "driver" \notin call.tried)
      /\ "driver" \in call.tried =>
            /\ call.resource.internalPath # NoPath
                  => "removeFile" \in call.tried
            /\ IsThumbnailType(call.resource.type)
                  => "removeThumb" \in call.tried

DeleteOrderingWitness ==
    /\ call.op = "delete"
    /\ call.pc = "done"
    /\ call.tried = { "removeFile", "removeThumb", "driver" }
    /\ call.id \notin DOMAIN rows

\* The cache files a resource can have: one for each extension its filename
\* has had.
ThumbnailsOf(id) ==
    { ThumbnailPath([id |-> id, ext |-> Ext(filename)]) :
        filename \in Filenames }

\* C26: after Store.DeleteResource has succeeded for an image resource, no
\* cached thumbnail of that resource remains on disk, whatever thumbnail
\* requests and renames came before the delete.
NoThumbnailAfterDelete ==
    ( /\ call.op = "delete"
      /\ call.pc = "done"
      /\ call.err = "nil"
      /\ call.driverCalled
      /\ IsThumbnailType(call.resource.type) )
    => ThumbnailsOf(call.id) \cap thumbFiles = {}

\* C30: Store.DeleteResource called with an ID no resource has returns a
\* non-nil error, attempts no file removal and does not call the driver's
\* delete.
MissingResourceIsError ==
    ( /\ call.op = "delete"
      /\ call.pc = "done"
      /\ call.resource = NoRow )
    => ( /\ call.err # "nil"
         /\ call.tried = {}
         /\ ~call.driverCalled )

----------------------------------------------------------------------------
(* Claims about storage dispatch, checked under SpecDispatch *)

\* C23: for every storage of the table, whatever its display name,
\* SaveResourceBlob creates the provider under the name GetResourceContent
\* uses for the storage, its type tag; a save through a storage whose type
\* is registered never fails with unknown-provider.
DispatchConsistency ==
    ( /\ call.op = "save"
      /\ call.id # DatabaseStorage )
    => ( /\ lastCreate.name = ContentProviderName(storages[call.id])
         /\ storages[call.id].type \in DOMAIN providers
               => lastCreate.kind # "unknown" )

----------------------------------------------------------------------------
(* Claims about the S3 provider's errors, checked under SpecProviders *)

\* C24: S3.Download reports not-found only for a missing key: when GetObject
\* fails with an error other than NoSuchKey, the error Download returns is
\* not ErrNotFound.
OnlyMissingKeyIsNotFound ==
    [][ \A key \in Keys, init \in BOOLEAN :
          ( /\ Calls(S3Name, "download", key)
            /\ ClientReady(init)
            /\ S3Download(key, init, "fault") )
          => lastOp'.kind # "notfound"
      ]_vars

----------------------------------------------------------------------------
(* Claims about the migration, checked under FairMigration *)

\* What a successful migration leaves: the local storage it used is of the
\* local type, every resource that had an InternalPath and no StorageID
\* references that storage and is otherwise as before, every other resource
\* is as before, and the handler saw each resource exactly once.
Migrated ==
    /\ mig.localStore \in DOMAIN storages
    /\ storages[mig.localStore].type = LocalName
    /\ DOMAIN rows = DOMAIN mig.before
    /\ \A id \in DOMAIN rows :
         /\ rows[id] = IF NeedsMigration(mig.before[id])
                       THEN [mig.before[id] EXCEPT !.storageID = mig.localStore]
                       ELSE mig.before[id]
         /\ Cardinality({ k \in DOMAIN mig.visited : mig.visited[k] = id }) = 1
    /\ Len(mig.visited) = Cardinality(DOMAIN rows)

\* C29: MigrateLocalResourcesToStorages terminates for any number of
\* resources (none, fewer than a page, exact multiples of the page size), and
\* when it has returned without error every resource that had an
\* InternalPath and no StorageID references the local storage, every other
\* resource is unchanged, and each resource was handled exactly once.
MigrationPostcondition ==
    /\ []((mig.pc = "done" /\ mig.err = "nil") => Migrated)
    /\ <>(mig.pc = "done")

MigrationPostconditionWitness ==
    /\ mig.pc = "done"
    /\ mig.err = "nil"
    /\ Cardinality(DOMAIN rows) = 2 * pageSize
    /\ \E id \in DOMAIN rows :
         NeedsMigration(mig.before[id]) /\ rows[id].storageID = mig.localStore

----------------------------------------------------------------------------
(* Claims about reads after the migration, checked under SpecMigratedRead *)

\* C25: for every legacy resource (InternalPath set, no StorageID) whose file
\* is on disk, GetResourceContent after a successful migration returns the
\* bytes of that file, as it did before the migration.
MigrationPreservesContent ==
    ( /\ call.op = "read"
      /\ mig.pc = "done"
      /\ mig.err = "nil"
      /\ NeedsMigration(mig.before[call.id])
      /\ ResourcePath(mig.before[call.id].internalPath) \in DOMAIN files
      /\ call.err # "error" )
    => ( /\ call.err = "nil"
         /\ call.content
              = files[ResourcePath(mig.before[call.id].internalPath)] )

----------------------------------------------------------------------------
(* Claims about the streams of a request, checked under SpecContent *)

\* C28: once the first content resolution has succeeded, every stream the
\* request opens (the original, the re-opened original, the thumbnail file)
\* has been closed when streamResourceContent returns, on every path: no
\* thumbnail asked, thumbnail served, thumbnail failed and the original
\* re-opened, thumbnail failed and the re-open failed.
NoStreamLeak ==
    \A r \in Requests :
      req[r].pc = "done" => req[r].opened \subseteq req[r].closed

NoStreamLeakWitness ==
    \E r \in Requests :
      /\ req[r].pc = "done"
      /\ req[r].body = "thumbnail"
      /\ req[r].opened = { "original", "thumbnail" }

----------------------------------------------------------------------------
(* Claims about concurrent thumbnail writes, checked under SpecThumb *)

\* C27: a cache hit serves a completely written thumbnail only: a request
\* whose os.Stat found the cache file never gets from os.Open a stream over
\* a file another request is still writing.
CacheHitIsComplete ==
    \A r \in Requests : req[r].hit => ~req[r].midWrite

----------------------------------------------------------------------------
(* Claims about the bytes of deleted resources, checked under SpecOrphan *)

\* C31: no orphaned bytes. After Store.DeleteResource has succeeded for a
\* resource whose bytes SaveResourceBlob wrote through a provider (StorageID
\* set, the key in ExternalLink), a Download of that key from the provider,
\* answered by the service, reports not-found.
NoOrphanedBytes ==
    [][ \A key \in Keys, env \in Environments(S3Name) :
          ( /\ call.op = "delete"
            /\ call.pc = "done"
            /\ call.err = "nil"
            /\ call.driverCalled
            /\ call.resource.storageID # 0
            /\ call.resource.externalLink = key
            /\ Calls(S3Name, "download", key)
            /\ ClientReady(env.init)
            /\ env.err # "fault"
            /\ S3Download(key, env.init, env.err) )
          => lastOp'.kind = "notfound"
      ]_vars


====
